---- MODULE Spec2Model ----
(***************************************************************************)
(* Model of src/app.py: the intercensal projection engine of the           *)
(* dashboard.  The script runs top to bottom once per render; pc is the    *)
(* position in the script and every action is one block of it.             *)
(*                                                                         *)
(* Numbers.  The script computes with floats.  The model computes with     *)
(* exact values: a value is a rational coefficient n/d times a bag of      *)
(* irrational atoms.  An atom <<n, d, deg, r14>> stands for (n/d)^(1/deg); *)
(* r14 = 1 marks a root that went through round(x, 14), which is then no   *)
(* longer the exact root.  Atoms of degree 1 are decimal constants kept    *)
(* unexpanded (the IMSS rates).  NaN, +inf and None are values of their    *)
(* own.                                                                    *)
(***************************************************************************)
EXTENDS Integers, Sequences, FiniteSets, Bags, TLC

\* ------------------------------------------------------------------ bounds
\* Cell values of the census tables range over 0..MaxNivel.
MaxNivel == 2

\* ---------------------------------------------------------------- rationals
RECURSIVE MCD(_, _)
MCD(a, b) == IF b = 0 THEN a ELSE MCD(b, a % b)

Abs(x) == IF x < 0 THEN -x ELSE x

\* n/d in lowest terms with d > 0.
Rat(n, d) ==
    LET g == MCD(Abs(n), Abs(d))
        s == IF d < 0 THEN -1 ELSE 1
    IN  <<(s * n) \div g, (s * d) \div g>>

RMul(p, q) == Rat(p[1] * q[1], p[2] * q[2])
RDiv(p, q) == Rat(p[1] * q[2], p[2] * q[1])
RAdd(p, q) == Rat(p[1] * q[2] + q[1] * p[2], p[2] * q[2])
RLt(p, q) == p[1] * q[2] < q[1] * p[2]

RECURSIVE Pot(_, _)
Pot(b, e) == IF e = 0 THEN 1 ELSE b * Pot(b, e - 1)

RPot(p, e) == <<Pot(p[1], e), Pot(p[2], e)>>

\* The integer r with r^deg = n, or -1 when n is no perfect power.
RECURSIVE RaizDesde(_, _, _)
RaizDesde(r, n, deg) ==
    IF Pot(r, deg) >= n
    THEN (IF Pot(r, deg) = n THEN r ELSE -1)
    ELSE RaizDesde(r + 1, n, deg)

RaizEntera(n, deg) == RaizDesde(0, n, deg)

\* ------------------------------------------------------------------- values
Num(q, at) == [t |-> "num", n |-> q[1], d |-> q[2], at |-> at]
Entero(k) == Num(<<k, 1>>, EmptyBag)
NaN == [t |-> "nan", n |-> 0, d |-> 1, at |-> EmptyBag]
Inf == [t |-> "inf", n |-> 0, d |-> 1, at |-> EmptyBag]
None == [t |-> "none", n |-> 0, d |-> 1, at |-> EmptyBag]
\* A cell of a column the frame does not have.
SinColumna == [t |-> "sin", n |-> 0, d |-> 1, at |-> EmptyBag]
\* The empty string '' of a table cell that was never filled.
CadenaVacia == [t |-> "str", n |-> 0, d |-> 1, at |-> EmptyBag]
\* A Python name no assignment has bound yet.
SinAsignar == [t |-> "unbound", n |-> 0, d |-> 1, at |-> EmptyBag]
\* A finite float the model does not evaluate (a quotient of irrationals).
NoEvaluado == [t |-> "noeval", n |-> 0, d |-> 1, at |-> EmptyBag]

EsNum(v) == v.t = "num"
Q(v) == <<v.n, v.d>>
EsRacional(v) == EsNum(v) /\ v.at = EmptyBag
EsCero(v) == EsNum(v) /\ v.n = 0
\* Python's v > 0 on a float (False on NaN).
Positivo(v) == (EsNum(v) /\ v.n > 0) \/ v.t = "inf"

\* Whole powers of exact roots fold back into the coefficient:
\* ((n/d)^(1/deg))^deg = n/d.  Rounded roots never fold.
RECURSIVE Plegar(_, _, _)
Plegar(S, q, at) ==
    IF S = {} THEN <<q, at>>
    ELSE LET a == CHOOSE x \in S : TRUE
             c == at[a]
             k == IF a[4] = 0 /\ a[3] > 1 THEN c \div a[3] ELSE 0
             r == c - k * a[3]
             resto == [x \in (DOMAIN at) \ {a} |-> at[x]]
             at2 == IF k = 0 THEN at
                    ELSE IF r = 0 THEN resto
                    ELSE resto (+) [x \in {a} |-> r]
         IN  Plegar(S \ {a}, RMul(q, RPot(<<a[1], a[2]>>, k)), at2)

Normal(q, at) ==
    IF q[1] = 0 THEN Num(<<0, 1>>, EmptyBag)
    ELSE LET p == Plegar(DOMAIN at, q, at) IN Num(p[1], p[2])

\* Float product x * y (both floats; None is handled by the callers).
VMul(x, y) ==
    IF x.t = "nan" \/ y.t = "nan" THEN NaN
    ELSE IF x.t = "inf" THEN (IF EsCero(y) THEN NaN ELSE Inf)
    ELSE IF y.t = "inf" THEN (IF EsCero(x) THEN NaN ELSE Inf)
    ELSE Normal(RMul(Q(x), Q(y)), x.at (+) y.at)

\* The atom a with every exponent negated is not representable; quotients
\* are only taken of rationals (numpy semantics: x/0 = inf, 0/0 = nan).
VDivRac(x, y) ==
    IF x.t = "nan" \/ y.t = "nan" THEN NaN
    ELSE IF EsCero(y) THEN (IF EsCero(x) THEN NaN ELSE Inf)
    ELSE Num(RDiv(Q(x), Q(y)), EmptyBag)

\* q ** (1/deg) for a rational q >= 0.
Raiz(q, deg) ==
    LET rn == RaizEntera(q[1], deg)
        rd == RaizEntera(q[2], deg)
    IN  IF rn >= 0 /\ rd >= 0 THEN Num(<<rn, rd>>, EmptyBag)
        ELSE Num(<<1, 1>>, SetToBag({<<q[1], q[2], deg, 0>>}))

\* round(x, 14): exact on the rationals the model produces as perfect roots
\* (their decimal expansion is short); an irrational root is moved off its
\* exact value, which the mark r14 = 1 records.
Round14(v) ==
    IF ~EsNum(v) THEN v
    ELSE Num(Q(v), [a \in {<<x[1], x[2], x[3], 1>> : x \in DOMAIN v.at} |->
                       CopiesIn(<<a[1], a[2], a[3], 0>>, v.at)
                       + CopiesIn(<<a[1], a[2], a[3], 1>>, v.at)])

\* The value with the rounding marks erased: what it would be without the
\* 5e-15 perturbation of round(x, 14).
SinRedondeo(v) ==
    IF ~EsNum(v) THEN v
    ELSE Normal(Q(v), [a \in {<<x[1], x[2], x[3], 0>> : x \in DOMAIN v.at} |->
                          CopiesIn(<<a[1], a[2], a[3], 0>>, v.at)
                          + CopiesIn(<<a[1], a[2], a[3], 1>>, v.at)])

\* Equality within floating-point tolerance.
Aprox(x, y) == SinRedondeo(x) = SinRedondeo(y)


\* ------------------------------------------------------- program constants
\* mapeo_archivos: the census year of each of the eight files.
AniosCenso == <<1988, 1993, 1998, 2003, 2008, 2013, 2018, 2023>>
Censos == {AniosCenso[j] : j \in 1..Len(AniosCenso)}

\* Rows with generacion < 1983 are dropped before the pivot is built.
GeneracionMinima == 1983

Metricas == {"UE", "PO"}

\* tasas_imss['Tasas'] for 2019..2022, as decimals num/den.
tasas_imss == <<<<10184, 10000>>, <<9681, 10000>>, <<10558, 10000>>, <<10319, 10000>>>>

\* A decimal constant of the script, kept unexpanded.
Decimal(q) == Num(<<1, 1>>, SetToBag({<<q[1], q[2], 1, 0>>}))
\* Variant of TasaIMSS: the first rate of the list applied to every year.
TasaIMSSFija(anio) == Decimal(tasas_imss[1])

TasaIMSS(anio) == Decimal(tasas_imss[anio - 2018])

\* ------------------------------------------------------------------ helpers
RECURSIVE Ordenar(_)
Ordenar(S) ==
    IF S = {} THEN <<>>
    ELSE LET m == CHOOSE x \in S : \A y \in S : x <= y
         IN  <<m>> \o Ordenar(S \ {m})

RECURSIVE SumaSeq(_)
SumaSeq(s) == IF s = <<>> THEN 0 ELSE Head(s) + SumaSeq(Tail(s))

Min(a, b) == IF a < b THEN a ELSE b

\* ------------------------------------------------------------------- inputs
\* The filtered long table, one row per (generacion, censo) it holds, with
\* the row's <<ue, po>>.  The tables drawn have, for every census present,
\* the businesses born in the census year and those born 5, 10, ... years
\* before it (from 1983 on), each cohort at a level that changes once along
\* the censuses (from a to b at the census of index k); personnel has the two
\* levels swapped.  Every generation from 1983 to the last census has a row,
\* and every census has the row of the businesses whose start year is unknown,
\* which the loader keys 0 (fillna(0)).
Niveles == 0..MaxNivel

IndiceCenso(c) == CHOOSE j \in 1..Len(AniosCenso) : AniosCenso[j] = c

NivelUE(k, a, b, c) == IF IndiceCenso(c) < k THEN a ELSE b
NivelPO(k, a, b, c) == IF IndiceCenso(c) < k THEN b ELSE a

TablaLarga(presentes, k, a, b) ==
    LET ultimo == CHOOSE c \in presentes : \A x \in presentes : x <= c
        capas == {r \in (GeneracionMinima..ultimo) \X presentes :
                     r[1] <= r[2] /\ (r[2] - r[1]) % 5 = 0}
        relleno == {<<g, ultimo>> : g \in GeneracionMinima..ultimo}
        sin_generacion == {<<0, c>> : c \in presentes}
    IN  [r \in capas \cup relleno \cup sin_generacion |->
            IF r \in capas \cup sin_generacion
            THEN <<NivelUE(k, a, b, r[2]), NivelPO(k, a, b, r[2])>>
            ELSE <<0, 0>>]

\* The census sets drawn: all eight files, one of them absent, or only one of
\* them present.
ConjuntosCensos == {Censos} \cup {Censos \ {c} : c \in Censos} \cup {{c} : c \in Censos}

\* The census index at which the level changes: after the first census, in
\* the middle, before the last census.
Cambios == {2, (Len(AniosCenso) \div 2) + 1, Len(AniosCenso)}

\* The table of a stratum with no business born in the last years: of
\* TablaLarga the rows keyed 0 and the generation years up to `hasta`.
TablaRala(presentes, k, a, b, hasta) ==
    LET t == TablaLarga(presentes, k, a, b)
    IN  [r \in {x \in DOMAIN t : x[1] <= hasta} |-> t[r]]

\* The last generation year of the tables drawn with few rows: five
\* generation years per census file present.
UltimaGeneracion(presentes) == GeneracionMinima + (5 * Cardinality(presentes)) - 1

\* The filtered tables drawn for the census files present: with a row for
\* every generation year up to the last census and, when no census but the
\* first is absent, with the generation years cut short.
TablasDe(presentes) ==
    {TablaLarga(presentes, k, a, b) : k \in Cambios, a \in Niveles, b \in Niveles}
    \cup (IF Censos \ {AniosCenso[1]} \subseteq presentes
          THEN {TablaRala(presentes, k, a, b, UltimaGeneracion(presentes)) :
                   k \in Cambios, a \in Niveles, b \in Niveles}
          ELSE {})

\* The filter of entity, sector and size stratum matched no row.
TablaVacia == <<>>

\* st.warning(f"Archivo no encontrado: {archivo}") of every census file absent.
ArchivosNoEncontrados(presentes) ==
    {<<"archivo no encontrado", c>> : c \in Censos \ presentes}

\* -------------------------------------------------------------------- state
VARIABLES
    pc,                   \* position in the script
    mostrar_unidades,     \* checkbox "Negocios"
    mostrar_personal,     \* checkbox "Empleos"
    fenomeno_demografico, \* the radio values the branches taken so far allow
    df_final_filtrado,    \* the filtered long table
    tabla_pivote,         \* [index, col]: row keys and, per column, the cells
    df_crecimiento,       \* [cols, UE, PO]: periods and their growth factors
    df_final,             \* census totals per metric
    df_proyeccion,        \* the Population-Activity series, in insertion order
    i,                    \* index of the period the compounding loop is at
    df_probabilidades,    \* [leido, vacio, filas]: the rows of PROBABILIDADES.csv
    df_proyeccion_formato,\* the Population-Activity table as displayed
    proyected_value,      \* the module-level variable of the 2020-2022 loops
    pasada,               \* 1 or 2: which of the two natality passes runs
    tabla_natalidad,      \* births per metric and census
    df_crecimiento_natalidad, \* [cols, UE, PO] of the births
    df_proyeccion_nat,    \* the Natality series
    tasanat1993,          \* natality rate of 1993 read after the first pass
    tasanat1998,          \* natality rate of 1998 read after the first pass
    df_proyeccion_nat_formato, \* the Natality table as displayed
    rango_sprv,           \* the survival range chosen on the slider
    tabla_sprv,           \* survivors per metric and census
    df_crecimiento_sprv,  \* [cols, UE, PO] of the survivors
    df_proyeccion_sprv,   \* the Survival series
    tabla_sprv_t,         \* survivors of five years or more per metric and census
    df_crecimiento_sprv_t,\* [cols, UE, PO] of those survivors
    df_proyeccion_mrt,    \* the Mortality series of survivors
    tabla_mrt,            \* deaths per metric and census
    df_crecimiento_mrt,   \* [cols, UE, PO] of the deaths
    muertos_mrt,          \* the deaths column of the Mortality series, by year
    avisos,               \* the st.warning messages issued
    excepcion             \* the exception that ended the render, or ""

poblacion_vars == <<tabla_pivote, df_crecimiento, df_final, df_proyeccion, i,
                    df_proyeccion_formato>>
natalidad_vars == <<pasada, tabla_natalidad, df_crecimiento_natalidad, df_proyeccion_nat,
                    tasanat1993, tasanat1998, df_proyeccion_nat_formato>>
supervivencia_vars == <<rango_sprv, tabla_sprv, df_crecimiento_sprv, df_proyeccion_sprv>>
mortalidad_vars == <<tabla_sprv_t, df_crecimiento_sprv_t, df_proyeccion_mrt, tabla_mrt,
                     df_crecimiento_mrt, muertos_mrt>>
adaptadores == <<natalidad_vars, supervivencia_vars, mortalidad_vars>>

vars == <<pc, mostrar_unidades, mostrar_personal, fenomeno_demografico,
          df_final_filtrado, df_probabilidades, proyected_value, poblacion_vars,
          adaptadores, avisos, excepcion>>

entradas == <<mostrar_unidades, mostrar_personal, df_final_filtrado>>

Fenomenos == {"Poblacion activa", "Natalidad", "Supervivencia", "Mortalidad"}

SinPivote == [index |-> <<>>, col |-> <<>>]
SinCrecimiento == [cols |-> <<>>, UE |-> <<>>, PO |-> <<>>]
SinLeer == [leido |-> FALSE, vacio |-> FALSE, filas |-> <<>>]

Init ==
    /\ pc = "cargar"
    /\ mostrar_unidades \in BOOLEAN
    /\ mostrar_personal \in BOOLEAN
    /\ fenomeno_demografico = Fenomenos
    /\ \E presentes \in ConjuntosCensos \cup {{}} :
           /\ avisos = ArchivosNoEncontrados(presentes)
           /\ df_final_filtrado \in
                  (IF presentes = {} THEN {} ELSE TablasDe(presentes)) \cup {TablaVacia}
    /\ tabla_pivote = SinPivote
    /\ df_crecimiento = SinCrecimiento
    /\ df_final = <<>>
    /\ df_proyeccion = <<>>
    /\ i = 0
    /\ df_probabilidades = SinLeer
    /\ df_proyeccion_formato = <<>>
    /\ proyected_value = SinAsignar
    /\ pasada = 1
    /\ tabla_natalidad = <<>>
    /\ df_crecimiento_natalidad = SinCrecimiento
    /\ df_proyeccion_nat = <<>>
    /\ tasanat1993 = SinAsignar
    /\ tasanat1998 = SinAsignar
    /\ df_proyeccion_nat_formato = <<>>
    /\ rango_sprv = 0
    /\ tabla_sprv = <<>>
    /\ df_crecimiento_sprv = SinCrecimiento
    /\ df_proyeccion_sprv = <<>>
    /\ tabla_sprv_t = <<>>
    /\ df_crecimiento_sprv_t = SinCrecimiento
    /\ df_proyeccion_mrt = <<>>
    /\ tabla_mrt = <<>>
    /\ df_crecimiento_mrt = SinCrecimiento
    /\ muertos_mrt = <<>>
    /\ excepcion = ""

Seleccionadas ==
    (IF mostrar_personal THEN {"PO"} ELSE {}) \cup (IF mostrar_unidades THEN {"UE"} ELSE {})

\* The render ends with an uncaught exception.
Lanza(e) == pc' = "error" /\ excepcion' = e

\* ------------------------------------------------------------ Pivot Builder
\* pd.pivot_table(values, index='generacion', columns='censo', aggfunc='sum',
\* fill_value=0), then the totals row keyed 0 appended.
Celda(df, g, c, m) ==
    IF <<g, c>> \in DOMAIN df
    THEN (IF m = "UE" THEN df[<<g, c>>][1] ELSE df[<<g, c>>][2])
    ELSE 0

\* df_final_filtrado[df_final_filtrado['generacion'] >= 1983]
DesdeGeneracionMinima(df) == {r \in DOMAIN df : r[1] >= GeneracionMinima}

\* A totals row that copies the last generation's cell instead of adding.
UltimaCelda(celdas) == IF celdas = <<>> THEN 0 ELSE celdas[Len(celdas)]

\* tabla_pivote.sum(axis=0)
FilaTotales(celdas) == SumaSeq(celdas)

ConIndiceTotales(gens) == Append(gens, 0)

pivot_table(df, valores) ==
    LET filas == DesdeGeneracionMinima(df)
        gens == Ordenar({r[1] : r \in filas})
        censos == {r[2] : r \in filas}
        columna(c, m) == [p \in 1..Len(gens) |-> Celda(df, gens[p], c, m)]
    IN  [index |-> ConIndiceTotales(gens),
         col |-> [x \in censos \X valores |->
                     Append(columna(x[1], x[2]), FilaTotales(columna(x[1], x[2])))]]

CensosDe(tp) == {x[1] : x \in DOMAIN tp.col}

\* Position (1-based) of the row keyed k, for tabla_pivote.loc[k].
PosicionFila(tp, k) == CHOOSE p \in 1..Len(tp.index) : tp.index[p] = k

\* tabla_pivote.loc[0, 'CE c - m']
Total(tp, c, m) == tp.col[<<c, m>>][PosicionFila(tp, 0)]

\* lista_df is empty: no census file was read.
SinDatos == \A c \in Censos : <<"archivo no encontrado", c>> \in avisos

\* cargar_datos() was called; an empty frame stops the render.
CargarDatos ==
    /\ pc = "cargar"
    /\ pc' = IF SinDatos THEN "detenido" ELSE "pivote"
    /\ UNCHANGED <<entradas, fenomeno_demografico, tabla_pivote, df_crecimiento, df_final,
                   df_proyeccion, i, df_probabilidades, df_proyeccion_formato, avisos,
                   excepcion>>
    /\ UNCHANGED <<proyected_value, adaptadores>>

\* The messages of the block that builds the pivot.
SinFilasDelFiltro == <<"sin datos para el filtro", 0>>
SinMetrica == <<"selecciona al menos una casilla", 0>>

\* Without rows or without a metric the block only shows its message:
\* tabla_formato is never bound and line 1313 reads it.
ConstruirPivote ==
    /\ pc = "pivote"
    /\ IF df_final_filtrado = TablaVacia
       THEN /\ avisos' = avisos \cup {SinFilasDelFiltro}
            /\ Lanza("NameError")
            /\ UNCHANGED tabla_pivote
       ELSE IF mostrar_personal \/ mostrar_unidades
       THEN /\ tabla_pivote' = pivot_table(df_final_filtrado, Seleccionadas)
            /\ pc' = "crecimiento"
            /\ UNCHANGED <<avisos, excepcion>>
       ELSE /\ avisos' = avisos \cup {SinMetrica}
            /\ Lanza("NameError")
            /\ UNCHANGED tabla_pivote
    /\ UNCHANGED <<entradas, fenomeno_demografico, df_crecimiento, df_final,
                   df_proyeccion, i, df_probabilidades, df_proyeccion_formato>>
    /\ UNCHANGED <<proyected_value, adaptadores>>

\* --------------------------------------------------- Growth Factor Calculator
\* One period of calcular_crecimiento: (total_actual/total_anterior) ** 0.2,
\* rounded to 14 decimals, or None when total_anterior is not positive.
calcular_crecimiento(total_anterior, total_actual) ==
    IF total_anterior > 0
    THEN Round14(Raiz(Rat(total_actual, total_anterior), 5))
    ELSE None

\* pd.DataFrame(filas, ...): a column holding only None keeps None (dtype
\* object); a column holding a number too becomes float and its None NaN.
InferirColumna(v, otros) ==
    IF v.t = "none" /\ \E o \in otros : o.t # "none" THEN NaN ELSE v

Periodos(cs) == [j \in 1..(Len(cs) - 1) |-> <<cs[j], cs[j + 1]>>]

\* df_crecimiento: one row of factors per selected metric, one column per period.
Crecimientos(tp, sel) ==
    LET cs == Ordenar(CensosDe(tp))
        per == Periodos(cs)
        bruto(m) == [j \in 1..Len(per) |->
                        calcular_crecimiento(Total(tp, per[j][1], m), Total(tp, per[j][2], m))]
        fila(m) == IF m \in sel
                   THEN [j \in 1..Len(per) |->
                            InferirColumna(bruto(m)[j], {bruto(o)[j] : o \in sel \ {m}})]
                   ELSE <<>>
    IN  [cols |-> per, UE |-> fila("UE"), PO |-> fila("PO")]

\* df_final: the totals row turned into one row per metric, one column per census.
Totales(tp, sel) == [m \in sel |-> [c \in CensosDe(tp) |-> Total(tp, c, m)]]

CalcularCrecimiento ==
    /\ pc = "crecimiento"
    /\ df_crecimiento' = Crecimientos(tabla_pivote, Seleccionadas)
    /\ df_final' = Totales(tabla_pivote, Seleccionadas)
    /\ pc' = IF Len(Ordenar(CensosDe(tabla_pivote))) > 1 THEN "periodos" ELSE "puente2019"
    /\ i' = 1
    /\ UNCHANGED <<entradas, fenomeno_demografico, tabla_pivote, df_proyeccion,
                   df_probabilidades, df_proyeccion_formato, avisos, excepcion>>
    /\ UNCHANGED <<proyected_value, adaptadores>>

\* ------------------------------------------------- Annual Series Compounder
\* A row of a projection frame: the year and one value per metric column.
Fila(anio, ue, po) == [anio |-> anio, UE |-> ue, PO |-> po]

\* Variant of AniosIntermedios: the loop without its break on anio_fin > 2019.
AniosIntermediosSinCorte(anio_inicio, anio_fin) == (anio_inicio + 1)..(anio_fin - 1)

\* Variant of AniosIntermedios: the range closed at anio_fin, which writes the
\* census that ends the period a first time.
AniosIntermediosHastaElFin(anio_inicio, anio_fin) ==
    IF anio_fin > 2019 THEN {} ELSE (anio_inicio + 1)..anio_fin

\* range(anio_inicio + 1, anio_fin) with the break on anio_fin > 2019.
AniosIntermedios(anio_inicio, anio_fin) ==
    IF anio_fin > 2019 THEN {} ELSE (anio_inicio + 1)..(anio_fin - 1)

\* tasa * tasa * ... * tasa, n >= 1 factors.
Potencia(tasa, n) ==
    IF ~EsNum(tasa) THEN tasa
    ELSE Normal(RPot(Q(tasa), n), [a \in DOMAIN tasa.at |-> n * tasa.at[a]])

\* Variant of Componer: every year takes the period's starting value times the
\* factor, the running value not being carried.
ComponerUnaVez(valor, tasa, n) ==
    IF n = 0 THEN valor ELSE VMul(valor, tasa)

\* valor_actual after n executions of valor_actual *= tasa.
Componer(valor, tasa, n) ==
    IF n = 0 THEN valor ELSE VMul(valor, Potencia(tasa, n))

\* Variant of ValorInicial: the period seeded from the total of the census
\* before it (of its own census for the first period).
ValorInicialAnterior(tot, m, anio_inicio) ==
    LET antes == {c \in DOMAIN tot[m] : c < anio_inicio}
    IN  IF antes = {} THEN Entero(tot[m][anio_inicio])
        ELSE Entero(tot[m][CHOOSE c \in antes : \A b \in antes : b <= c])

\* fila_inicial: the census total itself.
ValorInicial(tot, m, anio_inicio) == Entero(tot[m][anio_inicio])

\* One iteration of the loop over the census periods: the census row, then
\* the intermediate years.  `v0` holds the period's starting values and `crec`
\* the factors; a factor None makes valor_actual *= tasa raise TypeError.
FilasPeriodoDe(v0, crec, sel, j) ==
    LET ini == crec.cols[j][1]
        fin == crec.cols[j][2]
        w0(m) == IF m \in sel THEN v0[m] ELSE SinColumna
        tasa(m) == IF m = "UE" THEN crec.UE[j] ELSE crec.PO[j]
        v(m, a) == IF m \in sel THEN Componer(w0(m), tasa(m), a - ini) ELSE SinColumna
        medios == AniosIntermedios(ini, fin)
        lanza == medios # {} /\ \E m \in sel : tasa(m).t = "none"
    IN  [lanza |-> lanza,
         filas |-> <<Fila(ini, w0("UE"), w0("PO"))>> \o
                   (IF lanza THEN <<>>
                    ELSE [n \in 1..Cardinality(medios) |->
                             Fila(ini + n, v("UE", ini + n), v("PO", ini + n))])]

\* The iteration of the Population-Activity loop: seeded from df_final.
FilasPeriodo(tot, crec, sel, j) ==
    FilasPeriodoDe([m \in sel |-> ValorInicial(tot, m, crec.cols[j][1])], crec, sel, j)

ProyectarPeriodo ==
    /\ pc = "periodos"
    /\ i <= Len(df_crecimiento.cols)
    /\ \E r \in {FilasPeriodo(df_final, df_crecimiento, Seleccionadas, i)} :
           /\ df_proyeccion' = df_proyeccion \o r.filas
           /\ IF r.lanza
              THEN Lanza("TypeError") /\ UNCHANGED i
              ELSE /\ i' = i + 1
                   /\ pc' = IF i = Len(df_crecimiento.cols) THEN "puente2019" ELSE "periodos"
                   /\ UNCHANGED excepcion
    /\ UNCHANGED <<entradas, fenomeno_demografico, tabla_pivote, df_crecimiento, df_final,
                   df_probabilidades, df_proyeccion_formato, avisos>>
    /\ UNCHANGED <<proyected_value, adaptadores>>

\* ------------------------------------------------------ Post-2019 extension
RECURSIVE RSuma(_)
RSuma(s) == IF s = <<>> THEN <<0, 1>> ELSE RAdd(Head(s), RSuma(Tail(s)))

\* tasas_quinquenales_ue: next/current for every consecutive pair of census
\* values whose current value is positive.
TasasQuinquenales(valores) ==
    LET pares == SelectSeq([j \in 1..(Len(valores) - 1) |-> <<valores[j], valores[j + 1]>>],
                           LAMBDA x : x[1] > 0)
    IN  [j \in 1..Len(pares) |-> Rat(pares[j][2], pares[j][1])]

\* Variant of TasaAnualPromedio: the fifth root whatever the block.
TasaAnualPromedioQuinta(valores, grado) ==
    LET ts == TasasQuinquenales(valores)
    IN  IF ts # <<>> THEN Raiz(RDiv(RSuma(ts), <<Len(ts), 1>>), 5)
        ELSE Entero(1)

\* promedio ** (1/grado), or 1 when there is no quinquennial rate.
TasaAnualPromedio(valores, grado) ==
    LET ts == TasasQuinquenales(valores)
    IN  IF ts # <<>> THEN Raiz(RDiv(RSuma(ts), <<Len(ts), 1>>), grado)
        ELSE Entero(1)

\* The root taken of the quinquennial average in the Population-Activity block.
GradoPuentePoblacion == 6

\* df.loc[df['Año'] == anio, columna]: the values of the rows of that year.
ValoresDe(df, anio, m) ==
    LET fs == SelectSeq(df, LAMBDA f : f.anio = anio)
    IN  [j \in 1..Len(fs) |-> fs[j][m]]

\* tasa_anual_promedio_ue of the Population-Activity block.
tasa_anual_promedio_ue(tot) ==
    LET cs == Ordenar(DOMAIN tot["UE"])
    IN  TasaAnualPromedio([j \in 1..Len(cs) |-> tot["UE"][cs[j]]], GradoPuentePoblacion)

\* valor_2019_proyectado_ue and valor_2019_proyectado_po.
valor_2019_proyectado(df, tasa, m) ==
    VMul(ValoresDe(df, 2018, m)[1], IF m = "UE" THEN tasa ELSE TasaIMSS(2019))

Puente2019 ==
    /\ pc = "puente2019"
    /\ IF ValoresDe(df_proyeccion, 2018, "UE") = <<>>
       THEN \* .iloc[0] on an empty selection
            Lanza("IndexError") /\ UNCHANGED df_proyeccion
       ELSE LET t == IF mostrar_unidades THEN tasa_anual_promedio_ue(df_final) ELSE NaN
                v(m) == IF m \in Seleccionadas
                        THEN valor_2019_proyectado(df_proyeccion, t, m)
                        ELSE SinColumna
            IN  /\ df_proyeccion' = Append(df_proyeccion, Fila(2019, v("UE"), v("PO")))
                /\ pc' = "extension"
                /\ UNCHANGED excepcion
    /\ UNCHANGED <<entradas, fenomeno_demografico, tabla_pivote, df_crecimiento, df_final,
                   i, df_probabilidades, df_proyeccion_formato, avisos>>
    /\ UNCHANGED <<proyected_value, adaptadores>>

\* PROBABILIDADES.csv restricted to the entity, sector and size selected: the
\* years 2020..2022 it has a row for, each with <<SOBREVIVIENTES, NACIMIENTOS>>.
FilaProbabilidad ==
    [a \in 2020..2022 |->
        CASE a = 2020 -> <<<<80, 100>>, <<10, 100>>>>
          [] a = 2021 -> <<<<75, 100>>, <<20, 100>>>>
          [] a = 2022 -> <<<<90, 100>>, <<15, 100>>>>]

\* vacio: the file is missing and cargar_probabilidades returns an empty frame.
\* The tables drawn: rows for all three years, for all but one, for none of
\* them, and the empty frame.
TablasProbabilidad ==
    {[leido |-> TRUE, vacio |-> FALSE, filas |-> [a \in A |-> FilaProbabilidad[a]]] :
        A \in {B \in SUBSET (2020..2022) : Cardinality(B) # 1}}
    \cup {[leido |-> TRUE, vacio |-> TRUE, filas |-> <<>>]}

SOBREVIVIENTES(prob, anio) == prob.filas[anio][1]
NACIMIENTOS(prob, anio) == prob.filas[anio][2]

\* factor_crecimiento = tasa_supervivencia + tasa_nacimientos
factor_crecimiento(prob, anio) ==
    Num(RAdd(Rat(SOBREVIVIENTES(prob, anio)[1], SOBREVIVIENTES(prob, anio)[2]),
             Rat(NACIMIENTOS(prob, anio)[1], NACIMIENTOS(prob, anio)[2])), EmptyBag)

\* Variant of proyecciones_futuras: every year compounded on the year before
\* it instead of on 2019.
RECURSIVE proyecciones_futuras_compuesta(_, _, _)
proyecciones_futuras_compuesta(df, prob, anio_futuro) ==
    IF anio_futuro \notin DOMAIN prob.filas THEN None
    ELSE LET base == IF anio_futuro = 2020 \/ (anio_futuro - 1) \notin DOMAIN prob.filas
                     THEN ValoresDe(df, 2019, "UE")[1]
                     ELSE proyecciones_futuras_compuesta(df, prob, anio_futuro - 1)
         IN  VMul(base, factor_crecimiento(prob, anio_futuro))

\* proyecciones_futuras[anio_futuro] of the Population-Activity block.
proyecciones_futuras(df, prob, anio_futuro) ==
    IF anio_futuro \in DOMAIN prob.filas
    THEN VMul(ValoresDe(df, 2019, "UE")[1], factor_crecimiento(prob, anio_futuro))
    ELSE None

\* proyected_value after the loop: the value of the last year that has a row.
UltimoProyectado(df, prob, previo) ==
    IF DOMAIN prob.filas = {} THEN previo
    ELSE proyecciones_futuras(df, prob,
             CHOOSE a \in DOMAIN prob.filas : \A b \in DOMAIN prob.filas : b <= a)

\* proyecciones_futuras_po[anio]: valor_proyectado is carried from year to year.
RECURSIVE proyecciones_futuras_po(_, _)
proyecciones_futuras_po(df, anio) ==
    IF anio = 2020
    THEN VMul(ValoresDe(df, 2019, "PO")[1], TasaIMSS(2020))
    ELSE VMul(proyecciones_futuras_po(df, anio - 1), TasaIMSS(anio))

\* A None assigned into a float column of a frame is stored as NaN.
AlMarco(v) == IF v.t = "none" THEN NaN ELSE v

SinArchivoDeProbabilidades == <<"PROBABILIDADES.csv no encontrado", 0>>

SinFilaProbabilidad(prob) ==
    {<<"sin probabilidades", a>> : a \in (2020..2022) \ DOMAIN prob.filas}

\* fila3anios for 2020, 2021, 2022.
Filas2020a2022(df, prob, sel) ==
    [n \in 1..3 |->
        Fila(2019 + n,
             IF "UE" \in sel THEN AlMarco(proyecciones_futuras(df, prob, 2019 + n))
             ELSE SinColumna,
             IF "PO" \in sel THEN proyecciones_futuras_po(df, 2019 + n) ELSE SinColumna)]

Proyectar2020a2022 ==
    /\ pc = "extension"
    /\ IF mostrar_unidades
       THEN \E prob \in TablasProbabilidad :
               /\ df_probabilidades' = prob
               /\ IF prob.vacio
                  THEN \* st.error(...) in the loader, then st.stop()
                       /\ pc' = "detenido"
                       /\ avisos' = avisos \cup {SinArchivoDeProbabilidades}
                       /\ UNCHANGED <<df_proyeccion, proyected_value>>
                  ELSE /\ df_proyeccion' = df_proyeccion \o
                               Filas2020a2022(df_proyeccion, prob, Seleccionadas)
                       /\ proyected_value' =
                               UltimoProyectado(df_proyeccion, prob, proyected_value)
                       /\ avisos' = avisos \cup SinFilaProbabilidad(prob)
                       /\ pc' = "fila2023"
       ELSE /\ df_proyeccion' = df_proyeccion \o
                    Filas2020a2022(df_proyeccion, df_probabilidades, Seleccionadas)
            /\ pc' = "fila2023"
            /\ UNCHANGED <<df_probabilidades, avisos, proyected_value>>
    /\ UNCHANGED <<entradas, fenomeno_demografico, tabla_pivote, df_crecimiento, df_final,
                   i, df_proyeccion_formato, excepcion>>
    /\ UNCHANGED adaptadores

\* -------------------------------------------------------- 2023 reconciliation
\* Variant of fila_2023: the row read from the column of the census before 2023.
fila_2023_anterior(tp, sel) ==
    LET antes == CensosDe(tp) \ {2023}
        c == CHOOSE x \in antes : \A y \in antes : y <= x
    IN  [anio |-> 2023,
         UE |-> IF "UE" \in sel THEN Entero(Total(tp, c, "UE")) ELSE SinColumna,
         PO |-> IF "PO" \in sel THEN Entero(Total(tp, c, "PO")) ELSE SinColumna]

\* fila_2023: the values read from tabla_pivote.loc[0, 'CE 2023 - m'].
fila_2023(tp, sel) ==
    Fila(2023,
         IF "UE" \in sel THEN Entero(Total(tp, 2023, "UE")) ELSE SinColumna,
         IF "PO" \in sel THEN Entero(Total(tp, 2023, "PO")) ELSE SinColumna)

AnadirFila2023 ==
    /\ pc = "fila2023"
    /\ IF 2023 \in CensosDe(tabla_pivote)
       THEN /\ df_proyeccion' = Append(df_proyeccion, fila_2023(tabla_pivote, Seleccionadas))
            /\ pc' = "poblacion_activa"
            /\ UNCHANGED excepcion
       ELSE \* tabla_pivote has no column 'CE 2023 - m'
            Lanza("KeyError") /\ UNCHANGED df_proyeccion
    /\ UNCHANGED <<entradas, fenomeno_demografico, tabla_pivote, df_crecimiento, df_final,
                   i, df_probabilidades, df_proyeccion_formato, avisos>>
    /\ UNCHANGED <<proyected_value, adaptadores>>

\* ------------------------------------------------------ sort and deduplicate
RECURSIVE Permutaciones(_)
Permutaciones(S) ==
    IF S = {} THEN {<<>>}
    ELSE UNION {{<<x>> \o q : q \in Permutaciones(S \ {x})} : x \in S}

\* sort_values(by='Año') with pandas' default kind='quicksort', which is not
\* stable: rows of the same year may come out in any order.
RECURSIVE OrdenesPorAnio(_, _)
OrdenesPorAnio(df, anios) ==
    IF anios = <<>> THEN {<<>>}
    ELSE LET grupo == {j \in 1..Len(df) : df[j].anio = Head(anios)}
         IN  UNION {{[n \in 1..Len(q) |-> df[q[n]]] \o r :
                        r \in OrdenesPorAnio(df, Tail(anios))} :
                    q \in Permutaciones(grupo)}

sort_values(df) == OrdenesPorAnio(df, Ordenar({df[j].anio : j \in 1..Len(df)}))

\* drop_duplicates(subset='Año', keep='last')
drop_duplicates(df) ==
    LET queda(j) == \A k \in (j + 1)..Len(df) : df[k].anio # df[j].anio
        RECURSIVE Desde(_)
        Desde(j) == IF j > Len(df) THEN <<>>
                    ELSE (IF queda(j) THEN <<df[j]>> ELSE <<>>) \o Desde(j + 1)
    IN  Desde(1)

\* round(x, 0) of a rational, to the nearest integer (ties to even).
Redondear(q) ==
    LET piso == q[1] \div q[2]
        doble == 2 * (q[1] - piso * q[2])
    IN  IF doble < q[2] THEN piso
        ELSE IF doble > q[2] THEN piso + 1
        ELSE IF piso % 2 = 0 THEN piso ELSE piso + 1

\* f"{int(x):,}" of round(x, 0): the text of an integer.  Of a value the
\* model keeps symbolic the text is kept as the value it is the text of.
Texto(v) ==
    IF EsRacional(v) THEN [t |-> "txt", n |-> Redondear(Q(v)), d |-> 1, at |-> EmptyBag]
    ELSE [t |-> "txt", n |-> v.n, d |-> v.d, at |-> v.at]

\* int(x) raises ValueError on NaN and OverflowError on inf.
SinEntero(v) == v.t \in {"nan", "inf"}

Formatear(df, m) == [j \in 1..Len(df) |-> [df[j] EXCEPT ![m] = Texto(df[j][m])]]

\* The frame after the formatting of the selected metrics, units first.
FormatoSeleccionadas(df, sel) ==
    LET conUE == IF "UE" \in sel THEN Formatear(df, "UE") ELSE df
    IN  IF "PO" \in sel THEN Formatear(conUE, "PO") ELSE conUE

\* if fenomeno_demografico == f: the branch is taken when the radio may hold f.
Rama(f) == f \in fenomeno_demografico /\ fenomeno_demografico' = {f}
NoRama(f) == fenomeno_demografico \ {f} # {} /\ fenomeno_demografico' = fenomeno_demografico \ {f}

\* The block of the phenomenon 'Población activa'.  The growth-rate columns
\* it fills are display only: nothing reads them and filling them cannot
\* raise, so they are left out of the frame.
MostrarPoblacionActiva ==
    /\ pc = "poblacion_activa"
    /\ Rama("Poblacion activa")
    /\ \E orden \in sort_values(df_proyeccion) :
        \E limpio \in {drop_duplicates(orden)} :
              IF \E j \in 1..Len(limpio) : \E m \in Seleccionadas : SinEntero(limpio[j][m])
              THEN Lanza("ValueError") /\ UNCHANGED df_proyeccion_formato
              ELSE /\ df_proyeccion_formato' = FormatoSeleccionadas(limpio, Seleccionadas)
                   /\ pc' = "natalidad"
                   /\ UNCHANGED excepcion
    /\ UNCHANGED <<entradas, tabla_pivote, df_crecimiento, df_final, df_proyeccion,
                   i, df_probabilidades, avisos>>
    /\ UNCHANGED <<proyected_value, adaptadores>>

OmitirPoblacionActiva ==
    /\ pc = "poblacion_activa"
    /\ NoRama("Poblacion activa")
    /\ pc' = "natalidad"
    /\ UNCHANGED <<entradas, tabla_pivote, df_crecimiento, df_final, df_proyeccion,
                   i, df_probabilidades, df_proyeccion_formato, avisos, excepcion>>
    /\ UNCHANGED <<proyected_value, adaptadores>>

\* ------------------------------------------------------------------ Natality
\* df.iloc[fila, col] with fila = (i + 1) * 5 for the i-th census (from 0) of
\* cs, or '' when the frame has no such row.  The frame's last row is the
\* totals row.
ValorEnFila(tp, cs, n, m) ==
    LET fila == (n + 1) * 5
    IN  IF fila < Len(tp.index) THEN Entero(tp.col[<<cs[n + 1], m>>][fila + 1])
        ELSE CadenaVacia

\* nueva_tabla: per selected metric, the value of every census of cs.
TablaDeFilas(tp, cs, sel) ==
    [m \in sel |->
        [c \in {cs[j] : j \in 1..Len(cs)} |->
            ValorEnFila(tp, cs, (CHOOSE j \in 1..Len(cs) : cs[j] = c) - 1, m)]]

\* One period of calcular_crecimiento_natalidad: None unless both values are
\* truthy, and then (actual/anterior) ** 0.2, not rounded.
calcular_crecimiento_natalidad(anterior, actual) ==
    IF EsNum(anterior) /\ anterior.n # 0 /\ EsNum(actual) /\ actual.n # 0
    THEN (IF anterior.n > 0 THEN Raiz(Rat(actual.n, anterior.n), 5) ELSE None)
    ELSE None

\* df_crecimiento_natalidad
CrecimientoDeTabla(tab, cs, sel) ==
    LET per == Periodos(cs)
        bruto(m) == [j \in 1..Len(per) |->
                        calcular_crecimiento_natalidad(tab[m][per[j][1]], tab[m][per[j][2]])]
        fila(m) == IF m \in sel
                   THEN [j \in 1..Len(per) |->
                            InferirColumna(bruto(m)[j], {bruto(o)[j] : o \in sel \ {m}})]
                   ELSE <<>>
    IN  [cols |-> per, UE |-> fila("UE"), PO |-> fila("PO")]

\* The whole loop over the periods, from period j on: float('') raises
\* ValueError, a factor None TypeError; the rows written so far stay.
RECURSIVE ProyeccionCensal(_, _, _, _)
ProyeccionCensal(tab, crec, sel, j) ==
    IF j > Len(crec.cols) THEN [error |-> "", filas |-> <<>>]
    ELSE LET ini == crec.cols[j][1]
         IN  IF \E m \in sel : tab[m][ini].t = "str"
             THEN [error |-> "ValueError", filas |-> <<>>]
             ELSE LET r == FilasPeriodoDe([m \in sel |-> tab[m][ini]], crec, sel, j)
                  IN  IF r.lanza THEN [error |-> "TypeError", filas |-> r.filas]
                      ELSE LET resto == ProyeccionCensal(tab, crec, sel, j + 1)
                           IN  [error |-> resto.error, filas |-> r.filas \o resto.filas]

TablaNatalidad ==
    /\ pc = "natalidad"
    /\ \E cs \in {Ordenar(CensosDe(tabla_pivote))} :
       \E tab \in {TablaDeFilas(tabla_pivote, cs, Seleccionadas)} :
           /\ tabla_natalidad' = tab
           /\ df_crecimiento_natalidad' = CrecimientoDeTabla(tab, cs, Seleccionadas)
    /\ pc' = "periodos_nat"
    /\ UNCHANGED <<entradas, fenomeno_demografico, df_probabilidades, proyected_value,
                   poblacion_vars, pasada, df_proyeccion_nat, tasanat1993, tasanat1998,
                   df_proyeccion_nat_formato, supervivencia_vars, mortalidad_vars,
                   avisos, excepcion>>

ProyectarNatalidad ==
    /\ pc = "periodos_nat"
    /\ \E r \in {ProyeccionCensal(tabla_natalidad, df_crecimiento_natalidad,
                                  Seleccionadas, 1)} :
           /\ df_proyeccion_nat' = r.filas
           /\ IF r.error # "" THEN Lanza(r.error)
              ELSE pc' = "puente2019_nat" /\ UNCHANGED excepcion
    /\ UNCHANGED <<entradas, fenomeno_demografico, df_probabilidades, proyected_value,
                   poblacion_vars, pasada, tabla_natalidad, df_crecimiento_natalidad,
                   tasanat1993, tasanat1998, df_proyeccion_nat_formato,
                   supervivencia_vars, mortalidad_vars, avisos>>

\* The root taken of the quinquennial average in both natality passes.
GradoPuenteNatalidad == 6

\* The values of a table row in census order, as the integers they hold.
ValoresDeTabla(tab, m) ==
    LET cs == Ordenar(DOMAIN tab[m]) IN [j \in 1..Len(cs) |-> tab[m][cs[j]].n]

\* tasa_anual_promedio_ue of the natality passes.
tasa_anual_promedio_ue_nat(tab) ==
    TasaAnualPromedio(ValoresDeTabla(tab, "UE"), GradoPuenteNatalidad)

\* float(tabla.loc['UE', censo]) of a cell holding ''.
SinNumero(tab, m) == \E c \in DOMAIN tab[m] : tab[m][c].t = "str"

Puente2019Natalidad ==
    /\ pc = "puente2019_nat"
    /\ IF mostrar_unidades /\ SinNumero(tabla_natalidad, "UE")
       THEN Lanza("ValueError") /\ UNCHANGED df_proyeccion_nat
       ELSE IF ValoresDe(df_proyeccion_nat, 2018, "UE") = <<>>
       THEN Lanza("IndexError") /\ UNCHANGED df_proyeccion_nat
       ELSE LET t == IF mostrar_unidades THEN tasa_anual_promedio_ue_nat(tabla_natalidad)
                     ELSE NaN
                v(m) == IF m \in Seleccionadas
                        THEN valor_2019_proyectado(df_proyeccion_nat, t, m)
                        ELSE SinColumna
            IN  /\ df_proyeccion_nat' = Append(df_proyeccion_nat, Fila(2019, v("UE"), v("PO")))
                /\ pc' = "extension_nat"
                /\ UNCHANGED excepcion
    /\ UNCHANGED <<entradas, fenomeno_demografico, df_probabilidades, proyected_value,
                   poblacion_vars, pasada, tabla_natalidad, df_crecimiento_natalidad,
                   tasanat1993, tasanat1998, df_proyeccion_nat_formato,
                   supervivencia_vars, mortalidad_vars, avisos>>

\* factor_crecimiento of the second pass: NACIMIENTOS of the year over
\* NACIMIENTOS of anio_anterior = max(anio_futuro - 1, 2020).
factor_crecimiento_nat(prob, anio_futuro) ==
    LET anio_anterior == IF anio_futuro - 1 < 2020 THEN 2020 ELSE anio_futuro - 1
        actual == NACIMIENTOS(prob, anio_futuro)
        anterior == NACIMIENTOS(prob, anio_anterior)
    IN  VDivRac(Num(Rat(actual[1], actual[2]), EmptyBag),
                Num(Rat(anterior[1], anterior[2]), EmptyBag))

\* The second-pass loop with the births of 2019 carried to every year as they
\* are, the quotient of the natality rates left out.
NacimientosSinTasas(df, prob, t1993, t1998, previo) ==
    LET v == ValoresDe(df, 2019, "UE")[1]
    IN  [valores |-> [n \in 1..3 |-> IF 2019 + n \in DOMAIN prob.filas THEN v ELSE None],
         sinasignar |-> FALSE,
         ultimo |-> v]

\* The second-pass loop over 2020..2022: a year is projected when the table
\* has its row and the row of anio_anterior; 2020 from the 2019 value and the
\* two natality rates, 2021 and 2022 from proyected_value as it stands.
proyecciones_futuras_nat(df, prob, t1993, t1998, previo) ==
    LET tiene(a) == a \in DOMAIN prob.filas
        hay2020 == tiene(2020)
        hay2021 == tiene(2021) /\ tiene(2020)
        hay2022 == tiene(2022) /\ tiene(2021)
        v2020 == IF hay2020
                 THEN VMul(ValoresDe(df, 2019, "UE")[1], VDivRac(t1998, t1993))
                 ELSE previo
        v2021 == IF hay2021 THEN VMul(v2020, factor_crecimiento_nat(prob, 2021)) ELSE v2020
        v2022 == IF hay2022 THEN VMul(v2021, factor_crecimiento_nat(prob, 2022)) ELSE v2021
    IN  [valores |-> <<IF hay2020 THEN v2020 ELSE None,
                       IF hay2021 THEN v2021 ELSE None,
                       IF hay2022 THEN v2022 ELSE None>>,
         sinasignar |-> hay2022 /\ v2021 = SinAsignar,
         ultimo |-> v2022]

\* fila3anios of the second pass.
FilasNatalidad2020a2022(df, valores, sel) ==
    [n \in 1..3 |->
        Fila(2019 + n,
             IF "UE" \in sel THEN AlMarco(valores[n]) ELSE SinColumna,
             IF "PO" \in sel THEN proyecciones_futuras_po(df, 2019 + n) ELSE SinColumna)]

\* The years the second pass warns about.
SinFilaNatalidad(valores) ==
    {<<"sin probabilidades", 2019 + n>> : n \in {k \in 1..3 : valores[k].t = "none"}}

\* The first pass repeats the loop of the Population-Activity block on the
\* births; the table was read there (st.cache_data) and is not empty.
Natalidad2020a2022 ==
    /\ pc = "extension_nat"
    /\ IF ~mostrar_unidades
       THEN /\ df_proyeccion_nat' = df_proyeccion_nat \o
                    Filas2020a2022(df_proyeccion_nat, df_probabilidades, Seleccionadas)
            /\ pc' = "fila2023_nat"
            /\ UNCHANGED <<proyected_value, avisos, excepcion>>
       ELSE IF pasada = 1
       THEN /\ df_proyeccion_nat' = df_proyeccion_nat \o
                    Filas2020a2022(df_proyeccion_nat, df_probabilidades, Seleccionadas)
            /\ proyected_value' =
                    UltimoProyectado(df_proyeccion_nat, df_probabilidades, proyected_value)
            /\ avisos' = avisos \cup SinFilaProbabilidad(df_probabilidades)
            /\ pc' = "fila2023_nat"
            /\ UNCHANGED excepcion
       ELSE \E r \in {proyecciones_futuras_nat(df_proyeccion_nat, df_probabilidades,
                                               tasanat1993, tasanat1998, proyected_value)} :
                IF r.sinasignar
                THEN Lanza("NameError") /\ UNCHANGED <<df_proyeccion_nat, proyected_value, avisos>>
                ELSE /\ df_proyeccion_nat' = df_proyeccion_nat \o
                            FilasNatalidad2020a2022(df_proyeccion_nat, r.valores, Seleccionadas)
                     /\ proyected_value' = r.ultimo
                     /\ avisos' = avisos \cup SinFilaNatalidad(r.valores)
                     /\ pc' = "fila2023_nat"
                     /\ UNCHANGED excepcion
    /\ UNCHANGED <<entradas, fenomeno_demografico, df_probabilidades, poblacion_vars,
                   pasada, tabla_natalidad, df_crecimiento_natalidad, tasanat1993,
                   tasanat1998, df_proyeccion_nat_formato, supervivencia_vars,
                   mortalidad_vars>>

\* fila_2023 of the natality passes: read from tabla_natalidad.
fila_2023_nat(tab, sel) ==
    Fila(2023,
         IF "UE" \in sel THEN tab["UE"][2023] ELSE SinColumna,
         IF "PO" \in sel THEN tab["PO"][2023] ELSE SinColumna)

\* round(x, 2) of a rational.
Redondear2(q) == Rat(Redondear(RMul(q, <<100, 1>>)), 100)

\* Tasa de Natalidad (%): round(nacimientos / base * 100, 2) when the births
\* are not null and the base is positive, else the cell stays NaN.  The model
\* evaluates the quotient when both are rational up to the rounding marks.
TasaDeNatalidad(nacimientos, base) ==
    IF nacimientos.t \in {"nan", "sin"} \/ base.t = "sin" \/ ~Positivo(base) THEN NaN
    ELSE IF nacimientos.t = "inf" \/ base.t = "inf"
    THEN (IF nacimientos.t = base.t THEN NaN
          ELSE IF base.t = "inf" THEN Entero(0) ELSE Inf)
    ELSE IF EsRacional(SinRedondeo(nacimientos)) /\ EsRacional(SinRedondeo(base))
    THEN Num(Redondear2(RMul(<<100, 1>>, RDiv(Q(SinRedondeo(nacimientos)),
                                                Q(SinRedondeo(base))))), EmptyBag)
    ELSE NoEvaluado

\* The rows with their natality rates, computed against the first row of the
\* same year of df_proyeccion.
ConTasasDeNatalidad(nat, df) ==
    [j \in 1..Len(nat) |->
        LET base == SelectSeq(df, LAMBDA f : f.anio = nat[j].anio)
            tasa(m) == IF base = <<>> THEN (IF nat[j][m].t = "sin" THEN SinColumna ELSE NaN)
                       ELSE IF nat[j][m].t = "sin" THEN SinColumna
                       ELSE TasaDeNatalidad(nat[j][m], base[1][m])
        IN  [anio |-> nat[j].anio, UE |-> nat[j].UE, PO |-> nat[j].PO,
             tasaUE |-> tasa("UE"), tasaPO |-> tasa("PO")]]

\* The 2023 row, the sort and the deduplication, astype(float), the natality
\* rates, and after the first pass the two rates the second pass reads.
CerrarNatalidad ==
    /\ pc = "fila2023_nat"
    /\ IF \E m \in Seleccionadas : 2023 \notin DOMAIN tabla_natalidad[m]
       THEN /\ Lanza("KeyError")
            /\ UNCHANGED <<df_proyeccion_nat, tasanat1993, tasanat1998, pasada>>
       ELSE \E orden \in sort_values(Append(df_proyeccion_nat,
                                            fila_2023_nat(tabla_natalidad, Seleccionadas))) :
            \E limpio \in {drop_duplicates(orden)} :
            \E nat \in {ConTasasDeNatalidad(limpio, df_proyeccion)} :
               IF \E j \in 1..Len(limpio) : \E m \in Seleccionadas : limpio[j][m].t = "str"
               THEN /\ Lanza("ValueError")
                    /\ df_proyeccion_nat' = limpio
                    /\ UNCHANGED <<tasanat1993, tasanat1998, pasada>>
               ELSE IF pasada = 1 /\ mostrar_unidades
                       /\ \E a \in {1993, 1998} : \A j \in 1..Len(nat) : nat[j].anio # a
               THEN /\ Lanza("IndexError")
                    /\ df_proyeccion_nat' = nat
                    /\ UNCHANGED <<tasanat1993, tasanat1998, pasada>>
               ELSE /\ df_proyeccion_nat' = nat
                    /\ IF pasada = 1 /\ mostrar_unidades
                       THEN /\ tasanat1998' = ValoresDe(nat, 1998, "tasaUE")[1]
                            /\ tasanat1993' = ValoresDe(nat, 1993, "tasaUE")[1]
                       ELSE UNCHANGED <<tasanat1993, tasanat1998>>
                    /\ pasada' = 2
                    /\ pc' = IF pasada = 1 THEN "natalidad" ELSE "mostrar_natalidad"
                    /\ UNCHANGED excepcion
    /\ UNCHANGED <<entradas, fenomeno_demografico, df_probabilidades, proyected_value,
                   poblacion_vars, tabla_natalidad, df_crecimiento_natalidad,
                   df_proyeccion_nat_formato, supervivencia_vars, mortalidad_vars, avisos>>

\* The block of the phenomenon 'Natalidad': the table as displayed.
MostrarNatalidad ==
    /\ pc = "mostrar_natalidad"
    /\ Rama("Natalidad")
    /\ \E orden \in sort_values(df_proyeccion_nat) :
        \E limpio \in {drop_duplicates(orden)} :
              IF \E j \in 1..Len(limpio) : \E m \in Seleccionadas : SinEntero(limpio[j][m])
              THEN Lanza("ValueError") /\ UNCHANGED df_proyeccion_nat_formato
              ELSE /\ df_proyeccion_nat_formato' = FormatoSeleccionadas(limpio, Seleccionadas)
                   /\ pc' = "fin"
                   /\ UNCHANGED excepcion
    /\ UNCHANGED <<entradas, df_probabilidades, proyected_value, poblacion_vars, pasada,
                   tabla_natalidad, df_crecimiento_natalidad, df_proyeccion_nat,
                   tasanat1993, tasanat1998, supervivencia_vars, mortalidad_vars, avisos>>

OmitirNatalidad ==
    /\ pc = "mostrar_natalidad"
    /\ NoRama("Natalidad")
    /\ pc' = "supervivencia"
    /\ UNCHANGED <<entradas, df_probabilidades, proyected_value, poblacion_vars,
                   natalidad_vars, supervivencia_vars, mortalidad_vars, avisos, excepcion>>

\* ------------------------------------------------------------------ Survival
\* The slider: 5 to 25 in steps of 5.
RangosSupervivencia == {5, 10, 15, 20, 25}

\* The block of range r keeps the censuses from 1988 + r on (1993 for r = 5).
CensosDesde(tp, desde) == Ordenar({c \in CensosDe(tp) : c >= desde})

\* The root taken of the quinquennial average in the survival blocks.
GradoPuenteSupervivencia == 5

\* The mean of the quinquennial ratios to the power 1/6, the root of the
\* natality passes taken in a survival block.
RaizSextaDelPromedio(tab) == TasaAnualPromedio(ValoresDeTabla(tab, "UE"), 6)

\* tasa_anual_promedio_ue of the survival blocks.
tasa_anual_promedio_ue_sprv(tab) ==
    TasaAnualPromedio(ValoresDeTabla(tab, "UE"), GradoPuenteSupervivencia)

\* proyecciones_po[anio]: the 2018 value times the IMSS rates up to anio.
RECURSIVE proyecciones_po(_, _)
proyecciones_po(v2018, anio) ==
    IF anio = 2018 THEN v2018
    ELSE VMul(proyecciones_po(v2018, anio - 1), TasaIMSS(anio))

\* The rows 2019..2022 of the survival series: units compounded with the
\* annual average rate, personnel with the IMSS rates, both from 2018.
FilasSupervivencia2019a2022(df, tasa, sel) ==
    [n \in 1..4 |->
        Fila(2018 + n,
             IF "UE" \in sel THEN Componer(ValoresDe(df, 2018, "UE")[1], tasa, n)
             ELSE SinColumna,
             IF "PO" \in sel THEN proyecciones_po(ValoresDe(df, 2018, "PO")[1], 2018 + n)
             ELSE SinColumna)]

\* The survivors' projection of the block of the range chosen: table, growth
\* factors, compounding loop, 2019..2022 and the 2023 row.
ProyectarSupervivencia ==
    /\ pc = "supervivencia"
    /\ Rama("Supervivencia")
    /\ \E r \in RangosSupervivencia :
       \E cs \in {CensosDesde(tabla_pivote, 1988 + r)} :
       \E tab \in {TablaDeFilas(tabla_pivote, cs, Seleccionadas)} :
       \E crec \in {CrecimientoDeTabla(tab, cs, Seleccionadas)} :
       \E proy \in {ProyeccionCensal(tab, crec, Seleccionadas, 1)} :
        LET t == IF mostrar_unidades THEN tasa_anual_promedio_ue_sprv(tab) ELSE NaN
            error == IF proy.error # "" THEN proy.error
                     ELSE IF mostrar_unidades /\ SinNumero(tab, "UE") THEN "ValueError"
                     ELSE IF ValoresDe(proy.filas, 2018, "UE") = <<>> THEN "IndexError"
                     ELSE IF \A j \in 1..Len(cs) : cs[j] # 2023 THEN "KeyError"
                     ELSE ""
        IN  /\ rango_sprv' = r
            /\ tabla_sprv' = tab
            /\ df_crecimiento_sprv' = crec
            /\ IF error \in {"TypeError", "ValueError", "IndexError"}
               THEN /\ df_proyeccion_sprv' = proy.filas
                    /\ Lanza(error)
               ELSE IF error = "KeyError"
               THEN /\ df_proyeccion_sprv' = proy.filas \o
                            FilasSupervivencia2019a2022(proy.filas, t, Seleccionadas)
                    /\ Lanza(error)
               ELSE /\ df_proyeccion_sprv' = proy.filas \o
                            FilasSupervivencia2019a2022(proy.filas, t, Seleccionadas) \o
                            <<fila_2023_nat(tab, Seleccionadas)>>
                    /\ pc' = "probabilidad_sprv"
                    /\ UNCHANGED excepcion
    /\ UNCHANGED <<entradas, df_probabilidades, proyected_value, poblacion_vars,
                   natalidad_vars, mortalidad_vars, avisos>>

\* round(x, 4) of a rational.
Redondear4(q) == Rat(Redondear(RMul(q, <<10000, 1>>)), 10000)

\* A quotient capped at 1 that the model does not evaluate:
\* round(min(1, survivors / births), 4) of the two cells of its row.
Recortado == [t |-> "min1", n |-> 0, d |-> 1, at |-> EmptyBag]

\* `x and x != ''` of a cell: 0 is falsy; NaN is truthy.
Usable(v) == v.t \in {"num", "nan", "inf", "noeval"} /\ ~EsCero(v)

\* A survival probability that is never capped at 1.
ProbabilidadSinTope(supervivientes, valor_inicial) ==
    IF ~Usable(valor_inicial) \/ ~Usable(supervivientes) THEN NaN
    ELSE IF EsRacional(SinRedondeo(supervivientes)) /\ EsRacional(SinRedondeo(valor_inicial))
    THEN Num(Redondear4(RDiv(Q(SinRedondeo(supervivientes)), Q(SinRedondeo(valor_inicial)))),
             EmptyBag)
    ELSE NaN

\* probabilidad = supervivientes / valor_inicial, 1 when above 1, rounded to
\* 4 decimals; the cell is not written (NaN) unless both operands are truthy.
Probabilidad(supervivientes, valor_inicial) ==
    IF ~Usable(valor_inicial) \/ ~Usable(supervivientes) THEN NaN
    ELSE IF supervivientes.t = "nan" \/ valor_inicial.t = "nan" THEN NaN
    ELSE IF supervivientes.t = "inf"
    THEN (IF valor_inicial.t = "inf" THEN NaN ELSE Entero(1))
    ELSE IF valor_inicial.t = "inf" THEN Entero(0)
    ELSE IF EsRacional(SinRedondeo(supervivientes)) /\ EsRacional(SinRedondeo(valor_inicial))
    THEN LET q == RDiv(Q(SinRedondeo(supervivientes)), Q(SinRedondeo(valor_inicial)))
         IN  IF RLt(<<1, 1>>, q) THEN Entero(1) ELSE Num(Redondear4(q), EmptyBag)
    ELSE Recortado

\* df_sprv[col] = df_proyeccion_nat[col]: the assignment aligns the two
\* frames on their row labels 0, 1, 2, ...; a label the Natality series
\* does not have gives NaN.
Alineado(nat, j, m) == IF j <= Len(nat) THEN nat[j][m] ELSE NaN

\* A row of the Survival table of range r.
FilaSupervivencia(f, nat, j, r, sel) ==
    LET nac(m) == IF m \in sel THEN Alineado(nat, j, m) ELSE SinColumna
        prob(m) == IF m \in sel THEN Probabilidad(f[m], nac(m)) ELSE SinColumna
    IN  [anio |-> f.anio, UE |-> f.UE, PO |-> f.PO,
         nacUE |-> nac("UE"), nacPO |-> nac("PO"),
         probUE |-> prob("UE"), probPO |-> prob("PO"),
         anio_menos_t |-> f.anio - r]

\* The births column, the probabilities and 'Año(-t)' of the block of the
\* range chosen, then the table as displayed: int(x) of the births and of the
\* survivors of every metric selected.
ProbabilidadSupervivencia ==
    /\ pc = "probabilidad_sprv"
    /\ \E tabla \in {[j \in 1..Len(df_proyeccion_sprv) |->
                        FilaSupervivencia(df_proyeccion_sprv[j], df_proyeccion_nat, j,
                                          rango_sprv, Seleccionadas)]} :
        /\ df_proyeccion_sprv' = tabla
        /\ IF \E j \in 1..Len(tabla) :
                  \/ "UE" \in Seleccionadas /\ (SinEntero(tabla[j].nacUE) \/ SinEntero(tabla[j].UE))
                  \/ "PO" \in Seleccionadas /\ (SinEntero(tabla[j].nacPO) \/ SinEntero(tabla[j].PO))
           THEN Lanza("ValueError")
           ELSE pc' = "fin" /\ UNCHANGED excepcion
    /\ UNCHANGED <<entradas, fenomeno_demografico, df_probabilidades, proyected_value,
                   poblacion_vars, natalidad_vars, rango_sprv, tabla_sprv,
                   df_crecimiento_sprv, mortalidad_vars, avisos>>

OmitirSupervivencia ==
    /\ pc = "supervivencia"
    /\ NoRama("Supervivencia")
    /\ pc' = "mortalidad"
    /\ UNCHANGED <<entradas, df_probabilidades, proyected_value, poblacion_vars,
                   natalidad_vars, supervivencia_vars, mortalidad_vars, avisos, excepcion>>

\* ----------------------------------------------------------------- Mortality
\* segmento_filas.sum(): the first ((i + 1) * 5) + 1 rows of the column of the
\* i-th census (from 0) of cs.
SumaSegmento(tp, cs, n, m) ==
    LET limite_superior == ((n + 1) * 5) + 1
        col == tp.col[<<cs[n + 1], m>>]
    IN  Entero(SumaSeq(SubSeq(col, 1, Min(limite_superior, Len(col)))))

\* tabla_sprv_t
TablaDeSegmentos(tp, cs, sel) ==
    [m \in sel |->
        [c \in {cs[j] : j \in 1..Len(cs)} |->
            SumaSegmento(tp, cs, (CHOOSE j \in 1..Len(cs) : cs[j] = c) - 1, m)]]

\* The survivors of five years or more per census from 1993 on, and their
\* growth factors (calcular_crecimiento_sprv_t is calcular_crecimiento_natalidad
\* under another name).
TablaSobrevivientes ==
    /\ pc = "mortalidad"
    /\ Rama("Mortalidad")
    /\ \E cs \in {CensosDesde(tabla_pivote, 1993)} :
       \E tab \in {TablaDeSegmentos(tabla_pivote, cs, Seleccionadas)} :
           /\ tabla_sprv_t' = tab
           /\ df_crecimiento_sprv_t' = CrecimientoDeTabla(tab, cs, Seleccionadas)
    /\ pc' = "muertos"
    /\ UNCHANGED <<entradas, df_probabilidades, proyected_value, poblacion_vars,
                   natalidad_vars, supervivencia_vars, df_proyeccion_mrt, tabla_mrt,
                   df_crecimiento_mrt, muertos_mrt, avisos, excepcion>>

\* The result of max(0, x - y) where the model does not evaluate the
\* difference: a float that is not below zero.
Piso0 == [t |-> "max0", n |-> 0, d |-> 1, at |-> EmptyBag]

\* pd.isna(x)
EsNulo(v) == v.t \in {"nan", "none"}

\* The difference without the floor at 0.
DiferenciaSinPiso(activos, sobrevivientes) ==
    IF EsNulo(activos) \/ EsNulo(sobrevivientes) THEN NaN
    ELSE IF EsRacional(activos) /\ EsRacional(sobrevivientes)
    THEN Num(RAdd(Q(activos), <<-sobrevivientes.n, sobrevivientes.d>>), EmptyBag)
    ELSE NoEvaluado

\* val_activos - val_mrt, replaced by 0 when below 0; NaN stays NaN.
MaximoConCero(activos, sobrevivientes) ==
    IF EsNulo(activos) \/ EsNulo(sobrevivientes) THEN NaN
    ELSE IF EsRacional(activos) /\ EsRacional(sobrevivientes)
    THEN (IF RLt(Q(activos), Q(sobrevivientes)) THEN Entero(0)
          ELSE Num(RAdd(Q(activos), <<-sobrevivientes.n, sobrevivientes.d>>), EmptyBag))
    ELSE IF sobrevivientes.t = "inf" THEN (IF activos.t = "inf" THEN NaN ELSE Entero(0))
    ELSE IF activos.t = "inf" THEN Inf
    ELSE Piso0

\* df_activos_completo.iloc[i * 5, col] for the i-th census (from 0) of cs,
\* less the survivors of that census, floored at 0.
MuertosDelCenso(df, tab, cs, n, m) ==
    LET idx_fila == n * 5
    IN  IF idx_fila < Len(df) THEN MaximoConCero(df[idx_fila + 1][m], tab[m][cs[n + 1]])
        ELSE NaN

\* tabla_mrt
TablaDeMuertos(df, tab, cs, sel) ==
    [m \in sel |->
        [c \in {cs[j] : j \in 1..Len(cs)} |->
            MuertosDelCenso(df, tab, cs, (CHOOSE j \in 1..Len(cs) : cs[j] = c) - 1, m)]]

\* One period of df_crecimiento_mrt: None unless both values are truthy and
\* the earlier one is positive, and then (actual / anterior) ** 0.2.
crecimiento_mrt(anterior, actual) ==
    IF EsCero(anterior) \/ EsCero(actual) \/ anterior.t = "nan" THEN None
    ELSE IF anterior.t = "max0" \/ actual.t = "max0" THEN NoEvaluado
    ELSE IF actual.t = "nan" THEN NaN
    ELSE IF anterior.t = "inf" THEN (IF actual.t = "inf" THEN NaN ELSE Entero(0))
    ELSE IF actual.t = "inf" THEN Inf
    ELSE IF anterior.n > 0 THEN Raiz(RDiv(Q(actual), Q(anterior)), 5)
    ELSE None

\* df_crecimiento_mrt
CrecimientoDeMuertos(tab, cs, sel) ==
    LET per == Periodos(cs)
        fila(m) == IF m \in sel
                   THEN [j \in 1..Len(per) |->
                            crecimiento_mrt(tab[m][per[j][1]], tab[m][per[j][2]])]
                   ELSE <<>>
    IN  [cols |-> per, UE |-> fila("UE"), PO |-> fila("PO")]

\* The deaths per census from 1993 on and their growth factors.
TablaMuertos ==
    /\ pc = "muertos"
    /\ \E cs \in {CensosDesde(tabla_pivote, 1993)} :
       \E tab \in {TablaDeMuertos(df_proyeccion, tabla_sprv_t, cs, Seleccionadas)} :
           /\ tabla_mrt' = tab
           /\ df_crecimiento_mrt' = CrecimientoDeMuertos(tab, cs, Seleccionadas)
    /\ pc' = "periodos_mrt"
    /\ UNCHANGED <<entradas, fenomeno_demografico, df_probabilidades, proyected_value,
                   poblacion_vars, natalidad_vars, supervivencia_vars, tabla_sprv_t,
                   df_crecimiento_sprv_t, df_proyeccion_mrt, muertos_mrt, avisos,
                   excepcion>>

OmitirMortalidad ==
    /\ pc = "mortalidad"
    /\ NoRama("Mortalidad")
    /\ pc' = "fin"
    /\ UNCHANGED <<entradas, df_probabilidades, proyected_value, poblacion_vars,
                   natalidad_vars, supervivencia_vars, mortalidad_vars, avisos, excepcion>>

\* The loop of the mortality block: float(tasa) raises TypeError on None
\* before anything of the period is written, whether or not the period has
\* intermediate years.
RECURSIVE ProyeccionSobrevivientes(_, _, _, _)
ProyeccionSobrevivientes(tab, crec, sel, j) ==
    IF j > Len(crec.cols) THEN [error |-> "", filas |-> <<>>]
    ELSE LET tasa(m) == IF m = "UE" THEN crec.UE[j] ELSE crec.PO[j]
         IN  IF \E m \in sel : tasa(m).t = "none"
             THEN [error |-> "TypeError", filas |-> <<>>]
             ELSE LET r == FilasPeriodoDe([m \in sel |-> tab[m][crec.cols[j][1]]], crec, sel, j)
                      resto == ProyeccionSobrevivientes(tab, crec, sel, j + 1)
                  IN  [error |-> resto.error, filas |-> r.filas \o resto.filas]

\* The root taken of the quinquennial average in the mortality block.
GradoPuenteMortalidad == 5

\* tasa_anual_promedio_ue of the mortality block.
tasa_anual_promedio_ue_mrt(tab) ==
    TasaAnualPromedio(ValoresDeTabla(tab, "UE"), GradoPuenteMortalidad)

\* The survivors' series of the mortality block up to its 2019 row; a missing
\* 2018 row is caught (KeyError), warned about, and leaves 2019 out.
ProyectarSobrevivientes ==
    /\ pc = "periodos_mrt"
    /\ \E r \in {ProyeccionSobrevivientes(tabla_sprv_t, df_crecimiento_sprv_t,
                                          Seleccionadas, 1)} :
       LET t == IF mostrar_unidades THEN tasa_anual_promedio_ue_mrt(tabla_sprv_t) ELSE NaN
           v(m) == IF m \in Seleccionadas THEN valor_2019_proyectado(r.filas, t, m)
                   ELSE SinColumna
       IN  IF r.error # ""
           THEN /\ df_proyeccion_mrt' = r.filas
                /\ Lanza(r.error)
                /\ UNCHANGED avisos
           ELSE IF ValoresDe(r.filas, 2018, "UE") = <<>>
           THEN /\ df_proyeccion_mrt' = r.filas
                /\ avisos' = avisos \cup {<<"sin 2018", m>> : m \in Seleccionadas}
                /\ pc' = "extension_mrt"
                /\ UNCHANGED excepcion
           ELSE /\ df_proyeccion_mrt' = Append(r.filas, Fila(2019, v("UE"), v("PO")))
                /\ pc' = "extension_mrt"
                /\ UNCHANGED <<avisos, excepcion>>
    /\ UNCHANGED <<entradas, fenomeno_demografico, df_probabilidades, proyected_value,
                   poblacion_vars, natalidad_vars, supervivencia_vars, tabla_sprv_t,
                   df_crecimiento_sprv_t, tabla_mrt, df_crecimiento_mrt, muertos_mrt>>

\* df.loc[anio, columna] of a frame indexed by year when the year has a row
\* with a value, else NaN.
ValorDelAnio(df, anio, m) ==
    LET v == ValoresDe(df, anio, m)
    IN  IF v = <<>> THEN NaN ELSE AlMarco(v[1])

\* proyected_value_ue of the mortality block: the 2019 survivors times
\* SOBREVIVIENTES of every year up to anio that has a probability row.
RECURSIVE sobrevivientes_futuros(_, _, _)
sobrevivientes_futuros(df, prob, anio) ==
    IF anio = 2019 THEN ValoresDe(df, 2019, "UE")[1]
    ELSE IF anio \in DOMAIN prob.filas
    THEN VMul(sobrevivientes_futuros(df, prob, anio - 1),
              Num(Rat(SOBREVIVIENTES(prob, anio)[1], SOBREVIVIENTES(prob, anio)[2]), EmptyBag))
    ELSE sobrevivientes_futuros(df, prob, anio - 1)

\* The rows 2020..2022 of the survivors: units where the year has a
\* probability row, personnel with the IMSS rates; a year nothing is written
\* for has no row.
SobrevivientesFuturos(df, prob, sel) ==
    LET base(m) == m \in sel /\ ValoresDe(df, 2019, m) # <<>>
        escritoUE(a) == base("UE") /\ a \in DOMAIN prob.filas
        anios == {a \in 2020..2022 : escritoUE(a) \/ base("PO")}
        orden == Ordenar(anios)
    IN  [n \in 1..Len(orden) |->
            Fila(orden[n],
                 IF "UE" \notin sel THEN SinColumna
                 ELSE IF escritoUE(orden[n]) THEN sobrevivientes_futuros(df, prob, orden[n])
                 ELSE NaN,
                 IF "PO" \notin sel THEN SinColumna
                 ELSE IF base("PO") THEN proyecciones_futuras_po(df, orden[n])
                 ELSE NaN)]

\* The messages of the mortality block.
AvisosDeSobrevivientes(df, prob, tab, sel) ==
    {<<"sin valor 2019", m>> : m \in {x \in sel : ValoresDe(df, 2019, x) = <<>>}}
    \cup (IF "UE" \in sel /\ ValoresDe(df, 2019, "UE") # <<>>
          THEN {<<"sin probabilidades de sobrevivientes", a>> :
                    a \in (2020..2022) \ DOMAIN prob.filas}
          ELSE {})
    \cup {<<"sin sobrevivientes 2023", m>> : m \in {x \in sel : 2023 \notin DOMAIN tab[x]}}

\* The survivors of 2020..2022 and of 2023.  The cached loader returns the
\* probability frame the Population-Activity block read.
ExtenderSobrevivientes ==
    /\ pc = "extension_mrt"
    /\ \E futuros \in {SobrevivientesFuturos(df_proyeccion_mrt, df_probabilidades,
                                             Seleccionadas)} :
       LET v2023(m) == IF m \notin Seleccionadas THEN SinColumna
                       ELSE IF 2023 \in DOMAIN tabla_sprv_t[m] THEN tabla_sprv_t[m][2023]
                       ELSE NaN
           fila2023 == IF \E m \in Seleccionadas : 2023 \in DOMAIN tabla_sprv_t[m]
                       THEN <<Fila(2023, v2023("UE"), v2023("PO"))>>
                       ELSE <<>>
       IN  df_proyeccion_mrt' = df_proyeccion_mrt \o futuros \o fila2023
    /\ avisos' = avisos \cup AvisosDeSobrevivientes(df_proyeccion_mrt, df_probabilidades,
                                                    tabla_sprv_t, Seleccionadas)
    /\ pc' = "muertos_mrt"
    /\ UNCHANGED <<entradas, fenomeno_demografico, df_probabilidades, proyected_value,
                   poblacion_vars, natalidad_vars, supervivencia_vars, tabla_sprv_t,
                   df_crecimiento_sprv_t, tabla_mrt, df_crecimiento_mrt, muertos_mrt,
                   excepcion>>

\* tasa = 0 if pd.isna(tasa) else float(tasa); then `tasa == 0`.
TasaNula(tasa) == EsNulo(tasa) \/ EsCero(tasa)

\* The deaths of an intermediate year of a period: the difference of the
\* actives of five years before and the survivors, floored at 0, when the
\* period has no factor, else the census deaths compounded with the factor.
MuertosIntermedios(activos, sobrevivientes, muertos, tasa, anio, m, ini) ==
    LET diferencia == MaximoConCero(ValorDelAnio(activos, anio - 5, m),
                                    ValorDelAnio(sobrevivientes, anio, m))
    IN  IF TasaNula(tasa) THEN diferencia
        ELSE IF tasa.t = "noeval" \/ muertos.t = "max0"
        THEN (IF diferencia = NaN THEN NoEvaluado ELSE Piso0)
        ELSE Componer(muertos, tasa, anio - ini)

\* The deaths of 2019..2022: the actives of the year before less the
\* survivors of the year, floored at 0.
MuertosFuturos(activos, sobrevivientes, anio, m) ==
    MaximoConCero(ValorDelAnio(activos, anio - 1, m), ValorDelAnio(sobrevivientes, anio, m))

\* 'Número de negocios muertos x≥0' / 'Número de empleos muertos x≥0' of a
\* year: NaN where nothing is written.
MuertosDelAnio(activos, sobrevivientes, tab, crec, anio, m) ==
    LET per == crec.cols
        J == {j \in 1..Len(per) : per[j][1] <= anio /\ anio < per[j][2]}
        tasa(j) == IF m = "UE" THEN crec.UE[j] ELSE crec.PO[j]
    IN  IF anio = 2023
        THEN (IF 2023 \in DOMAIN tab[m] THEN tab[m][2023] ELSE NaN)
        ELSE IF anio \in 2019..2022
        THEN (IF per = <<>> THEN NaN ELSE MuertosFuturos(activos, sobrevivientes, anio, m))
        ELSE IF J = {} THEN NaN
        ELSE LET j == CHOOSE x \in J : TRUE
             IN  IF anio = per[j][1] THEN tab[m][anio]
                 ELSE IF anio \in AniosIntermedios(per[j][1], per[j][2])
                 THEN MuertosIntermedios(activos, sobrevivientes, tab[m][per[j][1]],
                                         tasa(j), anio, m, per[j][1])
                 ELSE NaN

\* The years the deaths loops write.
AniosDeMuertos(tab, crec, sel) ==
    LET per == crec.cols
    IN  UNION {{per[j][1]} \cup AniosIntermedios(per[j][1], per[j][2]) : j \in 1..Len(per)}
        \cup (IF per = <<>> THEN {} ELSE 2019..2022)
        \cup (IF \E m \in sel : 2023 \in DOMAIN tab[m] THEN {2023} ELSE {})

\* 'Activos' / 'Empleos activos': df_activos, the Population-Activity series
\* from its sixth row on, mapped by year.
ActivosMapeados(activos, anio, m) ==
    ValorDelAnio(SubSeq(activos, 6, Len(activos)), anio, m)

\* The deaths column, then the table as displayed: int(x) of the actives,
\* the survivors and the deaths of every metric selected.
ProyectarMuertos ==
    /\ pc = "muertos_mrt"
    /\ \E anios \in {Ordenar(AniosDeMuertos(tabla_mrt, df_crecimiento_mrt, Seleccionadas)
                             \cup {df_proyeccion_mrt[j].anio :
                                       j \in 1..Len(df_proyeccion_mrt)})} :
       \E muertos \in {[n \in 1..Len(anios) |->
                          LET de(m) == IF m \in Seleccionadas
                                       THEN MuertosDelAnio(df_proyeccion, df_proyeccion_mrt,
                                                tabla_mrt, df_crecimiento_mrt, anios[n], m)
                                       ELSE SinColumna
                          IN  Fila(anios[n], de("UE"), de("PO"))]} :
        /\ muertos_mrt' = muertos
        /\ IF \E n \in 1..Len(anios) : \E m \in Seleccionadas :
                  \/ SinEntero(ActivosMapeados(df_proyeccion, anios[n], m))
                  \/ SinEntero(ValorDelAnio(df_proyeccion_mrt, anios[n], m))
                  \/ SinEntero(muertos[n][m])
           THEN Lanza("ValueError")
           ELSE pc' = "fin" /\ UNCHANGED excepcion
    /\ UNCHANGED <<entradas, fenomeno_demografico, df_probabilidades, proyected_value,
                   poblacion_vars, natalidad_vars, supervivencia_vars, tabla_sprv_t,
                   df_crecimiento_sprv_t, df_proyeccion_mrt, tabla_mrt, df_crecimiento_mrt,
                   avisos>>

Next ==
    \/ CargarDatos
    \/ ConstruirPivote
    \/ CalcularCrecimiento
    \/ ProyectarPeriodo
    \/ Puente2019
    \/ Proyectar2020a2022
    \/ AnadirFila2023
    \/ MostrarPoblacionActiva
    \/ OmitirPoblacionActiva
    \/ TablaNatalidad
    \/ ProyectarNatalidad
    \/ Puente2019Natalidad
    \/ Natalidad2020a2022
    \/ CerrarNatalidad
    \/ MostrarNatalidad
    \/ OmitirNatalidad
    \/ ProyectarSupervivencia
    \/ ProbabilidadSupervivencia
    \/ OmitirSupervivencia
    \/ TablaSobrevivientes
    \/ TablaMuertos
    \/ OmitirMortalidad
    \/ ProyectarSobrevivientes
    \/ ExtenderSobrevivientes
    \/ ProyectarMuertos

Spec == Init /\ [][Next]_vars

\* ------------------------------------------- sort and deduplicate on its own
\* The sort and the deduplication applied to a series in which a year was
\* written more than once.  The engine's own series never hold a repeated
\* year, so the series are drawn here: up to MaxFilas rows of units over two
\* years, at least one of the years repeated, in their order of insertion.
MaxFilas == 3

AniosRepetidos == {2022, 2023}

SeriesEscritas ==
    {df \in UNION {[1..n -> {Fila(a, Entero(v), SinColumna) :
                                a \in AniosRepetidos, v \in Niveles}] : n \in 2..MaxFilas} :
        \E j, k \in 1..Len(df) : j < k /\ df[j].anio = df[k].anio}

InitOrden ==
    /\ pc = "poblacion_activa"
    /\ mostrar_unidades = TRUE
    /\ mostrar_personal = FALSE
    /\ fenomeno_demografico = Fenomenos
    /\ df_final_filtrado = TablaLarga(Censos, Len(AniosCenso), 1, 1)
    /\ tabla_pivote = SinPivote
    /\ df_crecimiento = SinCrecimiento
    /\ df_final = <<>>
    /\ df_proyeccion \in SeriesEscritas
    /\ i = 0
    /\ df_probabilidades = SinLeer
    /\ df_proyeccion_formato = <<>>
    /\ proyected_value = SinAsignar
    /\ pasada = 1
    /\ tabla_natalidad = <<>>
    /\ df_crecimiento_natalidad = SinCrecimiento
    /\ df_proyeccion_nat = <<>>
    /\ tasanat1993 = SinAsignar
    /\ tasanat1998 = SinAsignar
    /\ df_proyeccion_nat_formato = <<>>
    /\ rango_sprv = 0
    /\ tabla_sprv = <<>>
    /\ df_crecimiento_sprv = SinCrecimiento
    /\ df_proyeccion_sprv = <<>>
    /\ tabla_sprv_t = <<>>
    /\ df_crecimiento_sprv_t = SinCrecimiento
    /\ df_proyeccion_mrt = <<>>
    /\ tabla_mrt = <<>>
    /\ df_crecimiento_mrt = SinCrecimiento
    /\ muertos_mrt = <<>>
    /\ avisos = {}
    /\ excepcion = ""

NextOrden == MostrarPoblacionActiva

SpecOrden == InitOrden /\ [][NextOrden]_vars

\* ------------------------------------------------------------------- claims
\* The number of rows of a frame for a year, and the years of a frame in the
\* order of its rows.
FilasDe(df, anio) == Len(SelectSeq(df, LAMBDA f : f.anio = anio))
AniosDe(df) == [j \in 1..Len(df) |-> df[j].anio]
Corrido(a, b) == [j \in 1..(b - a + 1) |-> a + j - 1]
CensosOrdenados == Ordenar(CensosDe(tabla_pivote))

\* C1: for each selected metric the value at year 2023 of the
\* Population-Activity series, as appended and as displayed after the sort
\* and the deduplication, is the totals-row entry 'CE 2023 - metric' of the
\* pivot; the displayed series has exactly one row for 2023.
C1_Valor2023 ==
    /\ \A j \in 1..Len(df_proyeccion) : \A m \in Seleccionadas :
          df_proyeccion[j].anio = 2023 =>
              df_proyeccion[j][m] = Entero(Total(tabla_pivote, 2023, m))
    /\ df_proyeccion_formato # <<>> =>
          /\ FilasDe(df_proyeccion_formato, 2023) = 1
          /\ \A m \in Seleccionadas :
                ValoresDe(df_proyeccion_formato, 2023, m) =
                    <<Texto(Entero(Total(tabla_pivote, 2023, m)))>>

\* A displayed series of both metrics whose 2023 total is positive and is not
\* the value the extension gave 2022.
C1_Testigo ==
    /\ df_proyeccion_formato # <<>>
    /\ mostrar_unidades /\ mostrar_personal
    /\ Total(tabla_pivote, 2023, "UE") > 0
    /\ ValoresDe(df_proyeccion_formato, 2022, "UE") #
           ValoresDe(df_proyeccion_formato, 2023, "UE")

C3_CensosResembrados ==
    /\ \A j \in 1..Len(df_proyeccion) : \A m \in Seleccionadas :
          df_proyeccion[j].anio \in CensosDe(tabla_pivote) =>
              df_proyeccion[j][m] = Entero(Total(tabla_pivote, df_proyeccion[j].anio, m))
    /\ FilasDe(df_proyeccion, 2023) > 0 =>
          \A c \in CensosDe(tabla_pivote) : FilasDe(df_proyeccion, c) = 1
    /\ df_proyeccion_formato # <<>> =>
          \A c \in CensosDe(tabla_pivote) : \A m \in Seleccionadas :
              ValoresDe(df_proyeccion_formato, c, m) =
                  <<Texto(Entero(Total(tabla_pivote, c, m)))>>

\* A complete series in which compounding the stored factor over some period
\* would not have given the total of the census that ends it.
C3_Testigo ==
    /\ FilasDe(df_proyeccion, 2023) > 0
    /\ mostrar_unidades
    /\ \E j \in 1..Len(df_crecimiento.cols) :
          LET ini == df_crecimiento.cols[j][1]
              fin == df_crecimiento.cols[j][2]
          IN  /\ EsNum(df_crecimiento.UE[j])
              /\ df_final["UE"][ini] > 0
              /\ ~Aprox(Componer(Entero(df_final["UE"][ini]), df_crecimiento.UE[j], fin - ini),
                        Entero(df_final["UE"][fin]))

\* start * factor^(years of the period) against the end value, up to the
\* rounding of the factor.
Reproduce(inicio, factor, fin, anios) ==
    EsNum(inicio) /\ inicio.n > 0 => Aprox(Componer(inicio, factor, anios), fin)

\* C4 as stated: for every period whose start total is positive, whatever its
\* number of years, the stored factor compounded over the years of the period
\* reproduces the end total, in the table of the Population-Activity block
\* and in the table of the natality passes.
C4_Original ==
    /\ \A j \in 1..Len(df_crecimiento.cols) : \A m \in Seleccionadas :
          LET ini == df_crecimiento.cols[j][1]
              fin == df_crecimiento.cols[j][2]
          IN  Reproduce(Entero(df_final[m][ini]), df_crecimiento[m][j],
                        Entero(df_final[m][fin]), fin - ini)
    /\ \A j \in 1..Len(df_crecimiento_natalidad.cols) : \A m \in Seleccionadas :
          LET ini == df_crecimiento_natalidad.cols[j][1]
              fin == df_crecimiento_natalidad.cols[j][2]
          IN  Reproduce(tabla_natalidad[m][ini], df_crecimiento_natalidad[m][j],
                        tabla_natalidad[m][fin], fin - ini)

\* A table of factors with a period of ten years whose start total is
\* positive and whose factor, compounded ten times, misses the end total.
C4_Testigo ==
    \E j \in 1..Len(df_crecimiento.cols) : \E m \in Seleccionadas :
        LET ini == df_crecimiento.cols[j][1]
            fin == df_crecimiento.cols[j][2]
        IN  /\ fin - ini = 10
            /\ df_final[m][ini] > 0
            /\ df_crecimiento[m][j] =
                   Round14(Raiz(Rat(df_final[m][fin], df_final[m][ini]), 5))
            /\ ~Aprox(Componer(Entero(df_final[m][ini]), df_crecimiento[m][j], 10),
                      Entero(df_final[m][fin]))

\* The periods of the Population-Activity loop that have intermediate years
\* and whose start total of metric m is zero.
PeriodosDesdeCero(m) ==
    {j \in 1..Len(df_crecimiento.cols) :
        /\ df_final[m][df_crecimiento.cols[j][1]] = 0
        /\ AniosIntermedios(df_crecimiento.cols[j][1], df_crecimiento.cols[j][2]) # {}}

\* C5 as stated: in a period whose start total is zero the loop does not
\* raise, and once the period is done every intermediate year holds the start
\* value, zero.
C5_Original ==
    \A m \in Seleccionadas : \A j \in PeriodosDesdeCero(m) :
        /\ ~(pc = "error" /\ excepcion = "TypeError" /\ i = j)
        /\ i > j =>
              \A a \in AniosIntermedios(df_crecimiento.cols[j][1], df_crecimiento.cols[j][2]) :
                  ValoresDe(df_proyeccion, a, m) = <<Entero(0)>>

\* The loop stopped by TypeError in a period whose start total is zero, the
\* census row written and no intermediate year after it.
C5_Testigo ==
    /\ pc = "error" /\ excepcion = "TypeError"
    /\ i <= Len(df_crecimiento.cols)
    /\ \E m \in Seleccionadas : i \in PeriodosDesdeCero(m)
    /\ df_proyeccion[Len(df_proyeccion)].anio = df_crecimiento.cols[i][1]

\* The last row written for a year of a series.
UltimaEscrita(df, anio) ==
    df[CHOOSE j \in 1..Len(df) :
          /\ df[j].anio = anio
          /\ \A k \in (j + 1)..Len(df) : df[k].anio # anio]

SecuenciaPersonal == <<<<10184, 10000>>, <<9681, 10000>>, <<10558, 10000>>, <<10319, 10000>>>>

RECURSIVE ProductoPersonal(_, _)
ProductoPersonal(v, n) ==
    IF n = 0 THEN v ELSE VMul(ProductoPersonal(v, n - 1), Decimal(SecuenciaPersonal[n]))

\* C7: in the Population-Activity series the personnel of 2019, 2020, 2021 and
\* 2022 is the personnel of 2018 times the running product of 1.0184, 0.9681,
\* 1.0558 and 1.0319, and nothing else.
C7_PersonalFijo ==
    mostrar_personal =>
        \A n \in 1..4 : \A j \in 1..Len(df_proyeccion) :
            df_proyeccion[j].anio = 2018 + n =>
                df_proyeccion[j].PO =
                    ProductoPersonal(ValoresDe(df_proyeccion, 2018, "PO")[1], n)

\* A series with its 2022 row, personnel positive in 2018, and census growth
\* that is not the first personnel factor.
C7_Testigo ==
    /\ mostrar_personal
    /\ FilasDe(df_proyeccion, 2022) = 1
    /\ Positivo(ValoresDe(df_proyeccion, 2018, "PO")[1])
    /\ \E j \in 1..Len(df_crecimiento.cols) :
           EsNum(df_crecimiento.PO[j]) /\ df_crecimiento.PO[j] # Entero(1)

\* SOBREVIVIENTES + NACIMIENTOS of a year of the probability table.
SumaProbabilidades(anio) ==
    Num(RAdd(Rat(df_probabilidades.filas[anio][1][1], df_probabilidades.filas[anio][1][2]),
             Rat(df_probabilidades.filas[anio][2][1], df_probabilidades.filas[anio][2][2])),
        EmptyBag)

\* C8: in the Population-Activity series the units of each year of 2020..2022
\* that has a probability row are the units of 2019 times SOBREVIVIENTES +
\* NACIMIENTOS of that year: always on the 2019 base, never on the year before.
C8_BaseFija2019 ==
    mostrar_unidades =>
        \A y \in (2020..2022) \cap DOMAIN df_probabilidades.filas :
            \A j \in 1..Len(df_proyeccion) :
                df_proyeccion[j].anio = y =>
                    df_proyeccion[j].UE =
                        VMul(ValoresDe(df_proyeccion, 2019, "UE")[1], SumaProbabilidades(y))

\* A series with rows for the three years, units positive in 2019, whose 2021
\* value is not the 2020 value times the factor of 2021.
C8_Testigo ==
    /\ mostrar_unidades
    /\ DOMAIN df_probabilidades.filas = 2020..2022
    /\ FilasDe(df_proyeccion, 2022) = 1
    /\ Positivo(ValoresDe(df_proyeccion, 2019, "UE")[1])
    /\ ValoresDe(df_proyeccion, 2021, "UE")[1] #
           VMul(ValoresDe(df_proyeccion, 2020, "UE")[1], SumaProbabilidades(2021))

\* C9 as stated: in the natality series the births of each year of 2020..2022
\* that has a probability row are the births of the year before times
\* SOBREVIVIENTES + NACIMIENTOS of the year.
C9_Original ==
    mostrar_unidades =>
        \A y \in (2020..2022) \cap DOMAIN df_probabilidades.filas :
            (FilasDe(df_proyeccion_nat, y) = 1 /\ FilasDe(df_proyeccion_nat, y - 1) = 1) =>
                ValoresDe(df_proyeccion_nat, y, "UE")[1] =
                    VMul(ValoresDe(df_proyeccion_nat, y - 1, "UE")[1], SumaProbabilidades(y))

\* The final natality series, births positive in 2019: the births of 2020 are
\* those of 2019 times the quotient of the natality rates of 1998 and 1993,
\* and not those of 2019 times SOBREVIVIENTES + NACIMIENTOS of 2020.
C9_Testigo ==
    /\ pc = "mostrar_natalidad"
    /\ mostrar_unidades
    /\ DOMAIN df_probabilidades.filas = 2020..2022
    /\ Positivo(ValoresDe(df_proyeccion_nat, 2019, "UE")[1])
    /\ EsNum(tasanat1993) /\ tasanat1993.n > 0 /\ EsNum(tasanat1998)
    /\ ValoresDe(df_proyeccion_nat, 2020, "UE")[1] =
           VMul(ValoresDe(df_proyeccion_nat, 2019, "UE")[1], VDivRac(tasanat1998, tasanat1993))
    /\ ValoresDe(df_proyeccion_nat, 2020, "UE")[1] #
           VMul(ValoresDe(df_proyeccion_nat, 2019, "UE")[1], SumaProbabilidades(2020))

\* The sum of the ratios next/current over the pairs whose current value is
\* positive, from position j on.
RECURSIVE SumaRazones(_, _)
SumaRazones(valores, j) ==
    IF j >= Len(valores) THEN <<0, 1>>
    ELSE RAdd(IF valores[j] > 0 THEN Rat(valores[j + 1], valores[j]) ELSE <<0, 1>>,
              SumaRazones(valores, j + 1))

\* The arithmetic mean of those ratios to the power 1/grado; 1 without pairs.
TasaDelPuente(valores, grado) ==
    LET pares == {j \in 1..(Len(valores) - 1) : valores[j] > 0}
    IN  IF pares = {} THEN Entero(1)
        ELSE Raiz(RDiv(SumaRazones(valores, 1), <<Cardinality(pares), 1>>), grado)

\* units(2019) = units(2018) * rate, in a series that has its 2019 row.
PuenteCon(df, valores, grado) ==
    FilasDe(df, 2019) > 0 =>
        ValoresDe(df, 2019, "UE")[1] =
            VMul(ValoresDe(df, 2018, "UE")[1], TasaDelPuente(valores, grado))

\* C10: the units of 2019 are the units of 2018 times the arithmetic mean of
\* the ratios total(next census)/total(census), over the pairs whose first
\* total is positive, to the power 1/6 in the Population-Activity and the
\* natality series and to the power 1/5 in the survival and the mortality
\* series; without such a pair the rate is 1.
C10_TasaDelPuente ==
    mostrar_unidades =>
        /\ PuenteCon(df_proyeccion,
                     [j \in 1..Len(CensosOrdenados) |-> df_final["UE"][CensosOrdenados[j]]], 6)
        /\ PuenteCon(df_proyeccion_nat, ValoresDeTabla(tabla_natalidad, "UE"), 6)
        /\ PuenteCon(df_proyeccion_sprv, ValoresDeTabla(tabla_sprv, "UE"), 5)
        /\ PuenteCon(df_proyeccion_mrt, ValoresDeTabla(tabla_sprv_t, "UE"), 5)

\* A render that reached the survival series with its 2019 row, the three
\* series bridged, the survival rate not 1 and its fifth root not its sixth.
C10_Testigo ==
    /\ mostrar_unidades
    /\ FilasDe(df_proyeccion, 2019) = 1
    /\ FilasDe(df_proyeccion_nat, 2019) = 1
    /\ FilasDe(df_proyeccion_sprv, 2019) = 1
    /\ Positivo(ValoresDe(df_proyeccion_sprv, 2018, "UE")[1])
    /\ TasaDelPuente(ValoresDeTabla(tabla_sprv, "UE"), 5) # Entero(1)
    /\ TasaDelPuente(ValoresDeTabla(tabla_sprv, "UE"), 5) #
           TasaDelPuente(ValoresDeTabla(tabla_sprv, "UE"), 6)

\* The years of 2020..2022 the probability table read has no row for.
AniosSinFila ==
    IF df_probabilidades.leido /\ ~df_probabilidades.vacio
    THEN (2020..2022) \ DOMAIN df_probabilidades.filas
    ELSE {}

\* Every value of the Population-Activity series that int() cannot take is
\* the units value of a year without a probability row.
SoloFaltaLaFila ==
    \A j \in 1..Len(df_proyeccion) : \A m \in Seleccionadas :
        SinEntero(df_proyeccion[j][m]) =>
            m = "UE" /\ df_proyeccion[j].anio \in AniosSinFila

\* C11 as stated: when the probability table has no row for a year y of
\* 2020..2022, the warning is issued, the units of y are missing, the units
\* of the other years are the 2019 units times their own factor, and the
\* render does not raise because of it.
C11_Original ==
    (mostrar_unidades /\ FilasDe(df_proyeccion, 2022) > 0) =>
        \A y \in AniosSinFila :
            /\ <<"sin probabilidades", y>> \in avisos
            /\ ValoresDe(df_proyeccion, y, "UE") = <<NaN>>
            /\ \A z \in (2020..2022) \ AniosSinFila :
                   ValoresDe(df_proyeccion, z, "UE") =
                       <<VMul(ValoresDe(df_proyeccion, 2019, "UE")[1], SumaProbabilidades(z))>>
            /\ ~(pc = "error" /\ SoloFaltaLaFila)

\* The block 'Población activa' ended by ValueError on a series whose only
\* missing value is the units of the one year without a probability row; the
\* warning was issued and the other two years hold their products.
C11_Testigo ==
    /\ pc = "error" /\ excepcion = "ValueError"
    /\ tabla_natalidad = <<>>
    /\ mostrar_unidades
    /\ Cardinality(AniosSinFila) = 1
    /\ SoloFaltaLaFila
    /\ \A y \in AniosSinFila :
           /\ <<"sin probabilidades", y>> \in avisos
           /\ ValoresDe(df_proyeccion, y, "UE") = <<NaN>>
    /\ \A z \in (2020..2022) \ AniosSinFila :
           /\ EsNum(ValoresDe(df_proyeccion, z, "UE")[1])
           /\ ValoresDe(df_proyeccion, z, "UE") =
                  <<VMul(ValoresDe(df_proyeccion, 2019, "UE")[1], SumaProbabilidades(z))>>

\* The render is past the block that builds the pivot.
PasadoElPivote == pc \notin {"cargar", "pivote"}

\* C12 as stated: with rows to show and neither metric selected, the block
\* shows its informational message and the render stops there without an
\* exception; nothing after it runs.
C12_Original ==
    (~mostrar_unidades /\ ~mostrar_personal /\ df_final_filtrado # TablaVacia
        /\ PasadoElPivote) =>
        /\ SinMetrica \in avisos
        /\ excepcion = ""
        /\ pc = "detenido"

\* Neither metric selected: the message was shown, no pivot was built, and
\* the copy of the formatted matrix raised NameError.
C12_Testigo ==
    /\ ~mostrar_unidades /\ ~mostrar_personal
    /\ df_final_filtrado # TablaVacia
    /\ SinMetrica \in avisos
    /\ tabla_pivote = SinPivote
    /\ pc = "error" /\ excepcion = "NameError"

\* C13 as stated: when the filter matches no row the warning is shown and the
\* render halts without an exception; no step that reads the pivot runs.
C13_Original ==
    (df_final_filtrado = TablaVacia /\ ~SinDatos /\ PasadoElPivote) =>
        /\ SinFilasDelFiltro \in avisos
        /\ excepcion = ""
        /\ pc = "detenido"

\* The filter matched no row although census files were read and a metric is
\* selected: the warning was shown, no pivot was built, and the copy of the
\* formatted matrix raised NameError.
C13_Testigo ==
    /\ df_final_filtrado = TablaVacia /\ ~SinDatos
    /\ mostrar_unidades
    /\ SinFilasDelFiltro \in avisos
    /\ tabla_pivote = SinPivote
    /\ pc = "error" /\ excepcion = "NameError"

\* The census files that were not found.
CensosAusentes == {c \in Censos : <<"archivo no encontrado", c>> \in avisos}

\* C14 as stated: with exactly one census file absent the pivot, once built,
\* holds the other censuses and the render neither raises for the want of
\* that census nor stops; with PROBABILIDADES.csv absent the render does not
\* stop; with no census file at all it stops.
C14_Original ==
    /\ Cardinality(CensosAusentes) = 1 =>
          /\ tabla_pivote # SinPivote => CensosDe(tabla_pivote) = Censos \ CensosAusentes
          /\ ~(pc = "error" /\ excepcion = "IndexError" /\ tabla_natalidad = <<>>)
          /\ pc # "detenido"
    /\ SinArchivoDeProbabilidades \in avisos => pc # "detenido"
    /\ (SinDatos /\ pc # "cargar") => pc = "detenido"

\* Only the file of the 2018 census is absent, the totals of the other
\* censuses are positive, the loop over the periods ended, and the bridge to
\* 2019 raised IndexError for the want of a 2018 row.
C14_Testigo ==
    /\ CensosAusentes = {2018}
    /\ mostrar_unidades
    /\ CensosDe(tabla_pivote) = Censos \ {2018}
    /\ \A c \in CensosDe(tabla_pivote) : Total(tabla_pivote, c, "UE") > 0
    /\ FilasDe(df_proyeccion, 2013) = 1
    /\ FilasDe(df_proyeccion, 2018) = 0
    /\ pc = "error" /\ excepcion = "IndexError"
    /\ tabla_natalidad = <<>>

\* ---------------------------------------------------------------- claim C15
\* Sum of the cells of a pivot column at the rows whose key is not 0.
SumaDeGeneraciones(tp, x) ==
    SumaSeq([p \in 1..Len(tp.index) |-> IF tp.index[p] = 0 THEN 0 ELSE tp.col[x][p]])

\* C15: in every pivot built, exactly one row is keyed 0, every other row is
\* keyed by a generation year from 1983 on, and in every column the cell of
\* the row keyed 0 is the sum of the cells of all the other rows.
C15_FilaDeTotales ==
    tabla_pivote # SinPivote =>
        /\ Cardinality({p \in 1..Len(tabla_pivote.index) : tabla_pivote.index[p] = 0}) = 1
        /\ \A p \in 1..Len(tabla_pivote.index) :
               tabla_pivote.index[p] # 0 => tabla_pivote.index[p] >= GeneracionMinima
        /\ \A x \in DOMAIN tabla_pivote.col :
               /\ Len(tabla_pivote.col[x]) = Len(tabla_pivote.index)
               /\ tabla_pivote.col[x][PosicionFila(tabla_pivote, 0)]
                      = SumaDeGeneraciones(tabla_pivote, x)

\* A pivot of both metrics whose totals are positive and differ between the
\* two metrics of one census, so that a column has several cells to add,
\* built from a table that holds businesses of unknown start year (keyed 0).
C15_Testigo ==
    /\ tabla_pivote # SinPivote
    /\ <<0, 2023>> \in DOMAIN df_final_filtrado
    /\ df_final_filtrado[<<0, 2023>>][1] > 0
    /\ mostrar_unidades /\ mostrar_personal
    /\ CensosDe(tabla_pivote) = Censos
    /\ Total(tabla_pivote, 2023, "UE") > 2
    /\ Total(tabla_pivote, 2023, "UE") # Total(tabla_pivote, 2023, "PO")
    /\ Total(tabla_pivote, 2023, "PO") > 0

\* ---------------------------------------------------------------- claim C16
\* The pivot has one row for every generation year from 1983 onward.
TodasLasGeneraciones(tp) ==
    /\ Len(tp.index) > 1
    /\ \A p \in 1..(Len(tp.index) - 1) : tp.index[p] = GeneracionMinima + p - 1

\* The census with 0-based index n among the censuses of the pivot.
IndiceEnPivote(c) == (CHOOSE j \in 1..Len(CensosOrdenados) : CensosOrdenados[j] = c) - 1

\* C16: the Natality adapter's value of the census with 0-based index n is
\* the pivot cell at row position (n + 1) * 5 of that census's column, and with
\* a pivot that has every generation year from 1983 onward the row at that
\* position is the generation year equal to the census year.
C16_Original ==
    (tabla_natalidad # <<>> /\ TodasLasGeneraciones(tabla_pivote)) =>
        \A m \in DOMAIN tabla_natalidad : \A c \in DOMAIN tabla_natalidad[m] :
            /\ tabla_natalidad[m][c]
                   = Entero(tabla_pivote.col[<<c, m>>][((IndiceEnPivote(c) + 1) * 5) + 1])
            /\ tabla_pivote.index[((IndiceEnPivote(c) + 1) * 5) + 1] = c

\* The file of census 1993 is the only one absent: the adapter was built, and
\* the value of census 1998, the second census of the pivot, is the positive
\* cell of the row keyed 1993.
C16_Testigo ==
    /\ CensosAusentes = {1993}
    /\ tabla_natalidad # <<>> /\ TodasLasGeneraciones(tabla_pivote)
    /\ "UE" \in DOMAIN tabla_natalidad
    /\ tabla_pivote.index[11] = 1993
    /\ tabla_natalidad["UE"][1998] = Entero(tabla_pivote.col[<<1998, "UE">>][11])
    /\ IndiceEnPivote(1998) = 1
    /\ tabla_pivote.col[<<1998, "UE">>][11] > 0

\* ---------------------------------------------------------------- claim C17
\* The Survival table of the range chosen has its births and probabilities.
TablaDeSupervivenciaHecha ==
    /\ df_proyeccion_sprv # <<>>
    /\ "anio_menos_t" \in DOMAIN df_proyeccion_sprv[1]

\* min(1, s / b) of two exact counts, b # 0, to the 4 decimals the table keeps.
MinimoConUno(s, b) ==
    IF RLt(<<1, 1>>, RDiv(Q(s), Q(b))) THEN Entero(1)
    ELSE Num(Redondear4(RDiv(Q(s), Q(b))), EmptyBag)

\* The births and the probability of metric m on a row of year t.
NacimientosDe(f, m) == IF m = "UE" THEN f.nacUE ELSE f.nacPO
ProbabilidadDe(f, m) == IF m = "UE" THEN f.probUE ELSE f.probPO

\* C17: on every row of the Survival table of range k, with year t, 'Año(-t)'
\* is t - k, the births are the value of the Natality series at year t - k,
\* and the probability is min(1, survivors(t) / births(t - k)).
C17_Original ==
    TablaDeSupervivenciaHecha =>
        \A j \in 1..Len(df_proyeccion_sprv) :
            LET f == df_proyeccion_sprv[j]
            IN  /\ f.anio_menos_t = f.anio - rango_sprv
                /\ \A m \in Seleccionadas :
                       /\ <<NacimientosDe(f, m)>>
                              = ValoresDe(df_proyeccion_nat, f.anio - rango_sprv, m)
                       /\ (EsRacional(f[m]) /\ EsRacional(NacimientosDe(f, m))
                             /\ ~EsCero(NacimientosDe(f, m)))
                          => ProbabilidadDe(f, m) = MinimoConUno(f[m], NacimientosDe(f, m))

\* All census files present, range 5: the row of 2023 has no survivor of the
\* personnel born in 2018, whose births are positive, and its probability was
\* left unwritten instead of 0.
C17_Testigo ==
    /\ CensosAusentes = {}
    /\ TablaDeSupervivenciaHecha
    /\ rango_sprv = 5 /\ mostrar_personal
    /\ \E j \in 1..Len(df_proyeccion_sprv) :
           /\ df_proyeccion_sprv[j].anio = 2023
           /\ df_proyeccion_sprv[j].PO = Entero(0)
           /\ <<df_proyeccion_sprv[j].nacPO>> = ValoresDe(df_proyeccion_nat, 2018, "PO")
           /\ Positivo(df_proyeccion_sprv[j].nacPO)
           /\ df_proyeccion_sprv[j].probPO = NaN

\* ---------------------------------------------------------------- claim C18
\* A count that is not below zero (a float the model does not evaluate is a
\* quotient or product of positive floats).
NoNegativo(v) == ~(EsNum(v) /\ v.n < 0)

\* p is a number in [0, 1].
EnCeroUno(p) == EsRacional(p) /\ p.n >= 0 /\ p.n <= p.d

\* C18: every survival probability written is a number p with 0 <= p <= 1:
\* where the quotient survivors / births is above 1 the cell holds 1, and no
\* cell holds a negative number.  A cell is otherwise empty (NaN) or, where
\* the model does not evaluate the quotient, the capped quotient of two
\* counts that are not negative.
C18_ProbabilidadAcotada ==
    TablaDeSupervivenciaHecha =>
        \A j \in 1..Len(df_proyeccion_sprv) : \A m \in Seleccionadas :
            LET f == df_proyeccion_sprv[j]
                p == ProbabilidadDe(f, m)
            IN  /\ \/ p = NaN
                   \/ EnCeroUno(p)
                   \/ p = Recortado /\ NoNegativo(f[m]) /\ NoNegativo(NacimientosDe(f, m))
                /\ (EsRacional(f[m]) /\ EsRacional(NacimientosDe(f, m))
                      /\ RLt(Q(NacimientosDe(f, m)), Q(f[m])) /\ NacimientosDe(f, m).n > 0)
                   => p = Entero(1)

\* A row whose survivors are twice its births, where the probability written
\* is 1, in a table that also has a row whose quotient is 1 without the cap.
C18_Testigo ==
    /\ TablaDeSupervivenciaHecha
    /\ mostrar_unidades
    /\ \E j \in 1..Len(df_proyeccion_sprv) :
           /\ df_proyeccion_sprv[j].UE = Entero(2)
           /\ df_proyeccion_sprv[j].nacUE = Entero(1)
           /\ df_proyeccion_sprv[j].probUE = Entero(1)
    /\ \E j \in 1..Len(df_proyeccion_sprv) :
           /\ df_proyeccion_sprv[j].UE = df_proyeccion_sprv[j].nacUE
           /\ df_proyeccion_sprv[j].probUE = Entero(1)

\* ---------------------------------------------------------------- claim C19
\* The census with 0-based index n among the censuses of the pivot from 1993 on.
IndiceDesde1993(c) ==
    Cardinality({x \in CensosDe(tabla_pivote) : x >= 1993 /\ x < c})

\* Sum of the first n cells of a pivot column.
SumaPrimeras(tp, x, n) ==
    SumaSeq([p \in 1..Min(n, Len(tp.index)) |-> tp.col[x][p]])

\* Sum of the cells of a pivot column at the generation years up to g.
SumaHasta(tp, x, g) ==
    SumaSeq([p \in 1..Len(tp.index) |->
                 IF tp.index[p] # 0 /\ tp.index[p] <= g THEN tp.col[x][p] ELSE 0])

\* C19: the survivor count of the Mortality adapter for the census with
\* 0-based index n among the censuses from 1993 on is the sum of the first
\* 5 * (n + 1) + 1 rows of that census's column, which, with a pivot that has
\* every generation year from 1983 onward, is the sum over the generation
\* years up to the census year minus 5.
C19_Original ==
    (tabla_sprv_t # <<>> /\ TodasLasGeneraciones(tabla_pivote)) =>
        \A m \in DOMAIN tabla_sprv_t : \A c \in DOMAIN tabla_sprv_t[m] :
            /\ c >= 1993
            /\ tabla_sprv_t[m][c]
                   = Entero(SumaPrimeras(tabla_pivote, <<c, m>>, (5 * (IndiceDesde1993(c) + 1)) + 1))
            /\ tabla_sprv_t[m][c] = Entero(SumaHasta(tabla_pivote, <<c, m>>, c - 5))

\* The file of census 1998 is the only one absent: the survivor count of
\* census 2003, second of the censuses from 1993 on, is the sum over the
\* generations up to 1993, which is less than the sum over those up to 1998.
C19_Testigo ==
    /\ CensosAusentes = {1998}
    /\ tabla_sprv_t # <<>> /\ TodasLasGeneraciones(tabla_pivote)
    /\ "UE" \in DOMAIN tabla_sprv_t
    /\ IndiceDesde1993(2003) = 1
    /\ tabla_sprv_t["UE"][2003] = Entero(SumaHasta(tabla_pivote, <<2003, "UE">>, 1993))
    /\ SumaHasta(tabla_pivote, <<2003, "UE">>, 1993)
           < SumaHasta(tabla_pivote, <<2003, "UE">>, 1998)

\* ---------------------------------------------------------------- claim C20
\* max(0, a - s) of two values of the series: missing when one of them is,
\* exact when both are exact, and otherwise a float not below zero.
MuertosEsperados(a, s) ==
    IF a.t = "nan" \/ s.t = "nan" THEN NaN
    ELSE IF EsRacional(a) /\ EsRacional(s)
    THEN (IF a.n * s.d >= s.n * a.d
          THEN Num(Rat((a.n * s.d) - (s.n * a.d), a.d * s.d), EmptyBag)
          ELSE Entero(0))
    ELSE Piso0

\* A deaths value is not below zero, or is missing.
MuertosValidos(v) == v = NaN \/ v = Piso0 \/ v.t = "inf" \/ (EsNum(v) /\ v.n >= 0)

\* C20: the deaths of the Mortality adapter at every census year t from 1993
\* on are max(0, active(t - 5) - survivors(t)), active being the value of the
\* Population-Activity series of the same metric; and every deaths value of
\* the Mortality series, whatever its year, is not below zero or is missing.
C20_Original ==
    /\ tabla_mrt # <<>> =>
          \A m \in DOMAIN tabla_mrt : \A t \in DOMAIN tabla_mrt[m] :
              /\ t >= 1993
              /\ tabla_mrt[m][t]
                     = MuertosEsperados(ValorDelAnio(df_proyeccion, t - 5, m), tabla_sprv_t[m][t])
              /\ \A j \in 1..Len(muertos_mrt) :
                     muertos_mrt[j].anio = t => muertos_mrt[j][m] = tabla_mrt[m][t]
    /\ \A j \in 1..Len(muertos_mrt) : \A m \in Seleccionadas :
           MuertosValidos(muertos_mrt[j][m])

\* The file of census 1988 is the only one absent: the deaths of census 1998
\* are taken from the actives of 1998 itself, and differ from those taken
\* from the actives of 1993.
C20_Testigo ==
    /\ CensosAusentes = {1988}
    /\ tabla_mrt # <<>>
    /\ \E m \in Seleccionadas :
           /\ EsRacional(ValorDelAnio(df_proyeccion, 1993, m))
           /\ EsRacional(ValorDelAnio(df_proyeccion, 1998, m))
           /\ tabla_mrt[m][1998]
                  = MuertosEsperados(ValorDelAnio(df_proyeccion, 1998, m), tabla_sprv_t[m][1998])
           /\ tabla_mrt[m][1998]
                  # MuertosEsperados(ValorDelAnio(df_proyeccion, 1993, m), tabla_sprv_t[m][1998])

\* ---------------------------------------------------------------------- C21
\* The pivot has the columns of one census only and the script is past the
\* 2019 bridge (or was ended by it).
UnSoloCenso ==
    /\ Cardinality(CensosDe(tabla_pivote)) = 1
    /\ pc \notin {"crecimiento", "periodos", "puente2019"}

\* C21 (as stated): with a single census column per metric the growth-factor
\* table is empty and the script goes on without raising, the series holding
\* the value of that census at every year it has.
C21_Original ==
    UnSoloCenso =>
        /\ df_crecimiento.cols = <<>>
        /\ excepcion = ""
        /\ df_proyeccion # <<>>
        /\ \A j \in 1..Len(df_proyeccion) : \A m \in Seleccionadas : \A c \in CensosDe(tabla_pivote) :
               df_proyeccion[j][m] = Entero(Total(tabla_pivote, c, m))

\* A positive single census, no factor, no row emitted, and the lookup of the
\* 2018 row ended the render.
C21_Testigo ==
    /\ UnSoloCenso
    /\ CensosDe(tabla_pivote) = {2018}
    /\ "UE" \in Seleccionadas
    /\ Total(tabla_pivote, 2018, "UE") > 0
    /\ df_crecimiento.cols = <<>>
    /\ df_proyeccion = <<>>
    /\ pc = "error"
    /\ excepcion = "IndexError"

\* ---------------------------------------------------------------------- C22
\* The rows the loop over the periods writes from period j on, and whether it
\* was ended by an exception.
RECURSIVE PeriodosDesde(_, _, _, _)
PeriodosDesde(tot, crec, sel, j) ==
    IF j > Len(crec.cols) THEN [lanza |-> FALSE, filas |-> <<>>]
    ELSE LET r == FilasPeriodo(tot, crec, sel, j)
         IN  IF r.lanza THEN r
             ELSE LET s == PeriodosDesde(tot, crec, sel, j + 1)
                  IN  [lanza |-> s.lanza, filas |-> r.filas \o s.filas]

\* The Population-Activity series a render of the table df leaves when the
\* metrics selected are sel and the probability table read is prob: the blocks
\* of the script applied in order, up to the one that ends the render.
SerieDe(df, prob, sel) ==
    LET tp == pivot_table(df, sel)
        tot == Totales(tp, sel)
        p == PeriodosDesde(tot, Crecimientos(tp, sel), sel, 1)
        t == IF "UE" \in sel THEN tasa_anual_promedio_ue(tot) ELSE NaN
        v(m) == IF m \in sel THEN valor_2019_proyectado(p.filas, t, m) ELSE SinColumna
        con2019 == Append(p.filas, Fila(2019, v("UE"), v("PO")))
        con2022 == con2019 \o Filas2020a2022(con2019, prob, sel)
    IN  IF p.lanza \/ ValoresDe(p.filas, 2018, "UE") = <<>> THEN p.filas
        ELSE IF "UE" \in sel /\ prob.vacio THEN con2019
        ELSE IF 2023 \notin CensosDe(tp) THEN con2022
        ELSE Append(con2022, fila_2023(tp, sel))

\* The years and values of one metric of a series, in the order written.
ColumnaDe(df, m) == [j \in 1..Len(df) |-> <<df[j].anio, df[j][m]>>]

\* The Population-Activity series is as the script leaves it: complete, or cut
\* short by the exception or st.stop() that ended the render.
SerieTerminada ==
    /\ tabla_pivote # SinPivote
    /\ tabla_natalidad = <<>>
    /\ pc \in {"poblacion_activa", "error", "detenido"}

\* C22 (as stated): with both metrics selected, the series of each metric is
\* the one the same data give when that metric alone is selected.
C22_Original ==
    (SerieTerminada /\ Seleccionadas = Metricas) =>
        \A m \in Metricas :
            ColumnaDe(df_proyeccion, m) =
                ColumnaDe(SerieDe(df_final_filtrado, df_probabilidades, {m}), m)

\* Both metrics selected, eight censuses, PROBABILIDADES.csv missing: the
\* render stopped after the 2019 row, while personnel alone reaches 2023.
C22_Testigo ==
    /\ Seleccionadas = Metricas
    /\ pc = "detenido"
    /\ df_probabilidades.vacio
    /\ CensosDe(tabla_pivote) = Censos
    /\ \A c \in Censos : Total(tabla_pivote, c, "PO") > 0 /\ Total(tabla_pivote, c, "UE") > 0
    /\ df_proyeccion[Len(df_proyeccion)].anio = 2019
    /\ \E j \in 1..Len(SerieDe(df_final_filtrado, df_probabilidades, {"PO"})) :
           /\ SerieDe(df_final_filtrado, df_probabilidades, {"PO"})[j].anio = 2023
           /\ SerieDe(df_final_filtrado, df_probabilidades, {"PO"})[j].PO =
                  Entero(Total(tabla_pivote, 2023, "PO"))

\* ---------------------------------------------------------------------- C23
\* The number of rows of a series whose year is in A.
FilasEn(df, A) == Cardinality({j \in 1..Len(df) : df[j].anio \in A})

\* The years strictly inside the periods of crec that end after 2019.
DentroDelUltimoPeriodo(crec) ==
    UNION {(crec.cols[j][1] + 1)..(crec.cols[j][2] - 1) :
              j \in {k \in 1..Len(crec.cols) : crec.cols[k][2] > 2019}}

\* C23: the loop over the census periods, in the Population-Activity block
\* and in the natality passes, writes no row for a year strictly inside a
\* period that ends after 2019 (of the period 2018-2023 it writes the 2018
\* row only), and a row of a year 2019..2022 is only ever added to either
\* series by the 2019 bridge or by the 2020-2022 extension.
C23_SinFactorTras2018 ==
    [][/\ pc = "periodos" =>
              FilasEn(df_proyeccion', DentroDelUltimoPeriodo(df_crecimiento)) = 0
       /\ pc = "periodos_nat" =>
              FilasEn(df_proyeccion_nat', DentroDelUltimoPeriodo(df_crecimiento_natalidad)) = 0
       /\ FilasEn(df_proyeccion', 2019..2022) > FilasEn(df_proyeccion, 2019..2022) =>
              pc \in {"puente2019", "extension"}
       /\ FilasEn(df_proyeccion_nat', 2019..2022) > FilasEn(df_proyeccion_nat, 2019..2022) =>
              pc \in {"puente2019_nat", "extension_nat"}]_vars

\* Both series complete on eight censuses, the factor of 2018-2023 a number,
\* and the 2019 value of the units different from the 2018 total times it.
C23_Testigo ==
    /\ mostrar_unidades
    /\ CensosDe(tabla_pivote) = Censos
    /\ FilasDe(df_proyeccion, 2023) = 1
    /\ FilasDe(df_proyeccion_nat, 2022) = 1
    /\ df_crecimiento.cols[Len(df_crecimiento.cols)] = <<2018, 2023>>
    /\ EsNum(df_crecimiento.UE[Len(df_crecimiento.cols)])
    /\ FilasEn(df_proyeccion, 2019..2022) = 4
    /\ ValoresDe(df_proyeccion, 2019, "UE")[1] #
           VMul(ValoresDe(df_proyeccion, 2018, "UE")[1],
                df_crecimiento.UE[Len(df_crecimiento.cols)])

\* ---------------------------------------------------------------------- C24
\* The periods of the Population-Activity loop that end in or before 2019.
PeriodosHasta2019 ==
    {j \in 1..Len(df_crecimiento.cols) : df_crecimiento.cols[j][2] <= 2019}

\* The rows of the years strictly inside the periods that end in or before
\* 2019 are the only rows of their years and hold the value of the year before
\* times the factor of their period, which is the total of the census that
\* starts the period times that factor a - a_i times.
ValoresCompuestos ==
    \A j \in PeriodosHasta2019 : \A m \in Seleccionadas :
        LET ini == df_crecimiento.cols[j][1]
            fin == df_crecimiento.cols[j][2]
        IN  \A a \in (ini + 1)..(fin - 1) :
                FilasDe(df_proyeccion, a) > 0 =>
                    /\ FilasDe(df_proyeccion, a) = 1
                    /\ FilasDe(df_proyeccion, a - 1) = 1
                    /\ ValoresDe(df_proyeccion, a, m)[1] =
                           VMul(ValoresDe(df_proyeccion, a - 1, m)[1], df_crecimiento[m][j])
                    /\ ValoresDe(df_proyeccion, a, m)[1] =
                           Componer(Entero(df_final[m][ini]), df_crecimiento[m][j], a - ini)

\* C24: as long as the series has no row of 2019 (during the loop over the
\* periods and until the bridge) every row of an intermediate year of a period
\* ending in or before 2019 is the previous year's value times the factor of
\* its own period, census_total(a_i) x factor^(a - a_i); and no step ever
\* changes or removes a row the series already holds, so those values stay.
C24_AniosIntermedios ==
    /\ [](FilasDe(df_proyeccion, 2019) = 0 => ValoresCompuestos)
    /\ [][/\ Len(df_proyeccion') >= Len(df_proyeccion)
          /\ \A p \in 1..Len(df_proyeccion) : df_proyeccion'[p] = df_proyeccion[p]]_vars

\* The loop done on eight censuses with a units total of 1988 that is
\* positive and differs from that of 1993: 1992 holds the total of 1988 times
\* the factor four times, which is neither the total of 1988 nor the value of
\* 1989.
C24_Testigo ==
    /\ pc = "puente2019"
    /\ mostrar_unidades
    /\ CensosDe(tabla_pivote) = Censos
    /\ df_final["UE"][1988] > 0
    /\ df_final["UE"][1993] # df_final["UE"][1988]
    /\ ValoresDe(df_proyeccion, 1992, "UE") =
           <<Componer(Entero(df_final["UE"][1988]), df_crecimiento.UE[1], 4)>>
    /\ ValoresDe(df_proyeccion, 1992, "UE") # ValoresDe(df_proyeccion, 1989, "UE")
    /\ ValoresDe(df_proyeccion, 1992, "UE") # <<Entero(df_final["UE"][1988])>>

\* ---------------------------------------------------------------------- C25
\* The first and the last census of mapeo_archivos.
PrimerCenso == AniosCenso[1]
UltimoCenso == AniosCenso[Len(AniosCenso)]

\* C25: on a pivot of the eight censuses the Population-Activity series, as
\* appended and before any sort, holds at position p (from 0) the year
\* 1988 + p, so no year twice and none out of order; the bridge finds the
\* rows 1988..2018 and exactly one row of 2018, the extension exactly one row
\* of 2019 written before it, and once the 2023 row is appended the series
\* holds exactly the 36 years 1988..2023.
C25_SerieEnOrden ==
    CensosDe(tabla_pivote) = Censos =>
        /\ \A p \in 1..Len(df_proyeccion) : df_proyeccion[p].anio = PrimerCenso + p - 1
        /\ pc = "puente2019" =>
              /\ AniosDe(df_proyeccion) = Corrido(PrimerCenso, 2018)
              /\ FilasDe(df_proyeccion, 2018) = 1
        /\ pc = "extension" =>
              /\ AniosDe(df_proyeccion) = Corrido(PrimerCenso, 2019)
              /\ FilasDe(df_proyeccion, 2019) = 1
        /\ pc = "fila2023" => AniosDe(df_proyeccion) = Corrido(PrimerCenso, 2022)
        /\ FilasDe(df_proyeccion, UltimoCenso) > 0 =>
              /\ AniosDe(df_proyeccion) = Corrido(PrimerCenso, UltimoCenso)
              /\ Len(df_proyeccion) = 36

\* The series of both metrics complete on eight censuses, about to be sorted.
C25_Testigo ==
    /\ pc = "poblacion_activa"
    /\ CensosDe(tabla_pivote) = Censos
    /\ Seleccionadas = Metricas
    /\ Len(df_proyeccion) = 36
    /\ df_proyeccion[1].anio = 1988
    /\ df_proyeccion[32].anio = 2019
    /\ df_proyeccion[36].anio = 2023

\* ---------------------------------------------------------------------- C26
\* The census with 0-based index n among the censuses of the pivot from
\* `desde` on.
IndiceDesde(c, desde) ==
    Cardinality({x \in CensosDe(tabla_pivote) : x >= desde /\ x < c})

\* The pivot row at 0-based position `fila` is a generation-year row.
FilaDeGeneracion(fila) == tabla_pivote.index[fila + 1] # 0

\* C26 (as stated): whatever generation years the pivot has, the row the
\* Natality adapter and the Survival adapter of the range chosen read at
\* position (i + 1) * 5, when the pivot has that position, and every row of
\* the window [0, 5 * (i + 1) + 1) the Mortality adapter adds up, is a
\* generation-year row, never the totals row keyed 0.
C26_Original ==
    /\ tabla_natalidad # <<>> =>
          \A c \in CensosDe(tabla_pivote) :
              (IndiceDesde(c, PrimerCenso) + 1) * 5 < Len(tabla_pivote.index) =>
                  FilaDeGeneracion((IndiceDesde(c, PrimerCenso) + 1) * 5)
    /\ tabla_sprv # <<>> =>
          \A c \in {x \in CensosDe(tabla_pivote) : x >= PrimerCenso + rango_sprv} :
              (IndiceDesde(c, PrimerCenso + rango_sprv) + 1) * 5 < Len(tabla_pivote.index) =>
                  FilaDeGeneracion((IndiceDesde(c, PrimerCenso + rango_sprv) + 1) * 5)
    /\ tabla_sprv_t # <<>> =>
          \A c \in {x \in CensosDe(tabla_pivote) : x >= 1993} :
              \A fila \in 0..(Min(((IndiceDesde(c, 1993) + 1) * 5) + 1,
                                  Len(tabla_pivote.index)) - 1) :
                  FilaDeGeneracion(fila)

\* Census 1988 absent and no business born after 2017: the pivot has 35
\* generation rows and the totals row at position 35, which is the row the
\* Natality adapter read for census 2023 and the last row of the window the
\* Mortality adapter added up for it, so that both hold a multiple of the
\* census total.
C26_Testigo ==
    /\ tabla_sprv_t # <<>>
    /\ "UE" \in Seleccionadas
    /\ CensosDe(tabla_pivote) = Censos \ {PrimerCenso}
    /\ Len(tabla_pivote.index) = 36
    /\ ~FilaDeGeneracion(35)
    /\ Total(tabla_pivote, 2023, "UE") > 0
    /\ tabla_natalidad["UE"][2023] = Entero(Total(tabla_pivote, 2023, "UE"))
    /\ tabla_sprv_t["UE"][2023] = Entero(2 * Total(tabla_pivote, 2023, "UE"))

\* ---------------------------------------------------------------------- C27
\* The Natality series of the second pass, closed with its 2023 row.
NatalidadFinal ==
    /\ pasada = 2
    /\ pc \notin {"natalidad", "periodos_nat"}
    /\ FilasDe(df_proyeccion_nat, 2023) > 0

\* A cell of a float column that holds a value.
Presente(v) == v.t \notin {"nan", "none", "sin"}

\* C27 (as stated): in the final Natality series a units value of 2021 or
\* 2022 that is present has the value of the year before present too and is
\* that value times NACIMIENTOS(y) / NACIMIENTOS(y - 1).
C27_Original ==
    (NatalidadFinal /\ mostrar_unidades) =>
        \A y \in {2021, 2022} :
            Presente(ValoresDe(df_proyeccion_nat, y, "UE")[1]) =>
                /\ Presente(ValoresDe(df_proyeccion_nat, y - 1, "UE")[1])
                /\ ValoresDe(df_proyeccion_nat, y, "UE")[1] =
                       VMul(ValoresDe(df_proyeccion_nat, y - 1, "UE")[1],
                            factor_crecimiento_nat(df_probabilidades, y))

\* The probability table has the rows of 2021 and 2022 and not that of 2020:
\* the final series has no units value for 2020 and 2021 and has one for 2022.
C27_Testigo ==
    /\ NatalidadFinal
    /\ mostrar_unidades
    /\ DOMAIN df_probabilidades.filas = {2021, 2022}
    /\ ~Presente(ValoresDe(df_proyeccion_nat, 2020, "UE")[1])
    /\ ~Presente(ValoresDe(df_proyeccion_nat, 2021, "UE")[1])
    /\ EsNum(ValoresDe(df_proyeccion_nat, 2022, "UE")[1])
    /\ ValoresDe(df_proyeccion_nat, 2022, "UE")[1].n > 0
    /\ ValoresDe(df_proyeccion_nat, 2022, "UE")[1] =
           VMul(proyecciones_futuras(df_proyeccion_nat, df_probabilidades, 2022),
                factor_crecimiento_nat(df_probabilidades, 2022))

\* The natality rate of a year as the passes compute it: the births of the
\* year over the active units of the year, per cent, rounded to two places.
TasaDelAnio(anio) ==
    TasaDeNatalidad(ValoresDe(df_proyeccion_nat, anio, "UE")[1],
                    ValoresDe(df_proyeccion, anio, "UE")[1])

\* The births of 2019 as the bridge writes them, from tabla_natalidad alone.
Nacimientos2019 ==
    VMul(tabla_natalidad["UE"][2018], tasa_anual_promedio_ue_nat(tabla_natalidad))

\* C28: in the final natality series, when the probability table has the row
\* of 2020, the births of 2020 are the births of 2019 times the quotient of
\* the natality rates of 1998 and 1993 of the first pass (births over active
\* units, per cent); no term of the product reads SOBREVIVIENTES or
\* NACIMIENTOS, so the value is the same under every table with that row.
C28_Nacimientos2020 ==
    (NatalidadFinal /\ mostrar_unidades /\ 2020 \in DOMAIN df_probabilidades.filas) =>
        /\ tasanat1998 = TasaDelAnio(1998)
        /\ tasanat1993 = TasaDelAnio(1993)
        /\ ValoresDe(df_proyeccion_nat, 2019, "UE")[1] = Nacimientos2019
        /\ ValoresDe(df_proyeccion_nat, 2020, "UE")[1] =
               VMul(Nacimientos2019, VDivRac(TasaDelAnio(1998), TasaDelAnio(1993)))

\* The final natality series under a table with the rows of 2020 and 2022
\* only: the births of 2020 are present, differ from those of 2019 and are
\* not the value the first pass gave the year.
C28_Testigo ==
    /\ NatalidadFinal
    /\ mostrar_unidades
    /\ DOMAIN df_probabilidades.filas = {2020, 2022}
    /\ EsNum(tasanat1993) /\ tasanat1993.n > 0
    /\ EsNum(tasanat1998) /\ tasanat1998 # tasanat1993
    /\ Presente(ValoresDe(df_proyeccion_nat, 2020, "UE")[1])
    /\ Positivo(ValoresDe(df_proyeccion_nat, 2019, "UE")[1])
    /\ ValoresDe(df_proyeccion_nat, 2020, "UE")[1] #
           VMul(ValoresDe(df_proyeccion_nat, 2019, "UE")[1], SumaProbabilidades(2020))

\* The mean of the quinquennial ratios of the range's table to the power 1/5.
RaizQuintaDelPromedio == TasaAnualPromedio(ValoresDeTabla(tabla_sprv, "UE"), 5)

\* The survival series of the range chosen with its rows 2019..2022 written.
SupervivenciaHasta2022 ==
    /\ rango_sprv \in RangosSupervivencia
    /\ mostrar_unidades
    /\ FilasDe(df_proyeccion_sprv, 2022) > 0

\* C29: in the survival series of every range the surviving units of each
\* year of 2019..2022 are those of the year before times one and the same
\* annual rate, the mean of the quinquennial ratios of the range's table to
\* the power 1/5, from the 2018 value on; each of the four years has its row
\* and its value whatever rows the probability table holds.
C29_TasaConstante ==
    SupervivenciaHasta2022 =>
        \A y \in 2019..2022 :
            /\ FilasDe(df_proyeccion_sprv, y) = 1
            /\ FilasDe(df_proyeccion_sprv, y - 1) = 1
            /\ Presente(ValoresDe(df_proyeccion_sprv, y, "UE")[1])
            /\ ValoresDe(df_proyeccion_sprv, y, "UE")[1] =
                   VMul(ValoresDe(df_proyeccion_sprv, y - 1, "UE")[1], RaizQuintaDelPromedio)

\* A survival series compounded to 2022 at a rate other than 1 while the
\* probability table has no row of 2020.
C29_Testigo ==
    /\ SupervivenciaHasta2022
    /\ 2020 \notin DOMAIN df_probabilidades.filas
    /\ RaizQuintaDelPromedio # Entero(1)
    /\ Positivo(ValoresDe(df_proyeccion_sprv, 2018, "UE")[1])
    /\ ValoresDe(df_proyeccion_sprv, 2022, "UE")[1] #
           ValoresDe(df_proyeccion_sprv, 2018, "UE")[1]

\* ---------------------------------------------------------------------- C30
\* The deaths column of the Mortality series is written.
MuertosEscritos == muertos_mrt # <<>>

\* The last year before anio, from 2019 on, the units survivors were written
\* for: 2019 or a later year with a probability row.
AnioPrevioEscrito(anio) ==
    CHOOSE a \in 2019..(anio - 1) :
        /\ a = 2019 \/ a \in DOMAIN df_probabilidades.filas
        /\ \A b \in (a + 1)..(anio - 1) : b \notin DOMAIN df_probabilidades.filas

\* C30: in the Mortality series the deaths of every year t of 2019..2022 are
\* max(0, active(t - 1) - survivors(t)) when both are present and missing
\* otherwise; and the units survivors of a year of 2020..2022 with a
\* probability row are SOBREVIVIENTES of the year times the survivors of the
\* last year before it that was written, a year without a row having no
\* survivors value.
C30_MuertosYSobrevivientes ==
    MuertosEscritos =>
        /\ \A t \in 2019..2022 : \A m \in Seleccionadas :
               LET a == ValorDelAnio(df_proyeccion, t - 1, m)
                   s == ValorDelAnio(df_proyeccion_mrt, t, m)
                   d == ValorDelAnio(muertos_mrt, t, m)
               IN  IF Presente(a) /\ Presente(s)
                   THEN d = MuertosEsperados(a, s)
                   ELSE ~Presente(d)
        /\ (mostrar_unidades /\ ValoresDe(df_proyeccion_mrt, 2019, "UE") # <<>>) =>
               \A t \in 2020..2022 :
                   IF t \in DOMAIN df_probabilidades.filas
                   THEN ValorDelAnio(df_proyeccion_mrt, t, "UE") =
                            VMul(ValorDelAnio(df_proyeccion_mrt, AnioPrevioEscrito(t), "UE"),
                                 Num(Rat(SOBREVIVIENTES(df_probabilidades, t)[1],
                                         SOBREVIVIENTES(df_probabilidades, t)[2]), EmptyBag))
                   ELSE ~Presente(ValorDelAnio(df_proyeccion_mrt, t, "UE"))

\* The Mortality series under a table with the rows of 2020 and 2022 only:
\* the units survivors of 2022 are those of 2020 times SOBREVIVIENTES(2022)
\* and differ from them, 2021 has neither survivors nor deaths, and 2020
\* has deaths, taken from the actives of 2019.
C30_Testigo ==
    /\ MuertosEscritos
    /\ mostrar_unidades
    /\ DOMAIN df_probabilidades.filas = {2020, 2022}
    /\ Positivo(ValorDelAnio(df_proyeccion_mrt, 2020, "UE"))
    /\ Presente(ValorDelAnio(df_proyeccion_mrt, 2022, "UE"))
    /\ ValorDelAnio(df_proyeccion_mrt, 2022, "UE") # ValorDelAnio(df_proyeccion_mrt, 2020, "UE")
    /\ ~Presente(ValorDelAnio(df_proyeccion_mrt, 2021, "UE"))
    /\ ~Presente(ValorDelAnio(muertos_mrt, 2021, "UE"))
    /\ Presente(ValorDelAnio(df_proyeccion, 2019, "UE"))
    /\ Presente(ValorDelAnio(muertos_mrt, 2020, "UE"))

====
